---- MODULE Spec2Model ----
(***************************************************************************)
(* Model of llm-dom-selector: the in-page snapshot script                  *)
(* (scripts/domExtractor.ts) and the relocation / action layer             *)
(* (services/browserContext.ts).                                           *)
(*                                                                         *)
(* Strings are sequences of pieces.  A piece is either one character       *)
(* ("/", "[", "2", " ", ...) or a word: a run of letters, "-" and "_"      *)
(* starting with a letter, which the code never looks inside (a tag name,  *)
(* an attribute name).  A string is the concatenation of its pieces.       *)
(***************************************************************************)
EXTENDS Integers, Sequences, FiniteSets, TLC

\* ------------------------------------------------------------------ bounds
\* Number of elements the page may hold under body (overlay excluded).
MaxElems == 2

\* ------------------------------------------------------------ null values
\* `null` of a `number | null` field.
NullIdx == -1
\* parentElement of the root element.
NoElement == -1
\* The document element; body (element 1) is its child.
HtmlIndex == 0
\* document.body
BodyIndex == 1

\* ----------------------------------------------------------- string tools
Digit == <<"0", "1", "2", "3", "4", "5", "6", "7", "8", "9">>

RECURSIVE NumToString(_)
\* Number.prototype.toString for a non-negative integer.
NumToString(n) ==
  IF n < 10 THEN <<Digit[n + 1]>>
  ELSE NumToString(n \div 10) \o <<Digit[(n % 10) + 1]>>

RECURSIVE Join(_, _)
\* Array.prototype.join
Join(segs, sep) ==
  IF Len(segs) = 0 THEN <<>>
  ELSE IF Len(segs) = 1 THEN segs[1]
  ELSE segs[1] \o sep \o Join(Tail(segs), sep)

IsWhitespace(c) == c \in {" ", "\n", "\t", "\r"}

RECURSIVE TrimLeft(_)
TrimLeft(s) ==
  IF Len(s) > 0 /\ IsWhitespace(s[1]) THEN TrimLeft(Tail(s)) ELSE s

RECURSIVE TrimRight(_)
TrimRight(s) ==
  IF Len(s) > 0 /\ IsWhitespace(s[Len(s)])
  THEN TrimRight(SubSeq(s, 1, Len(s) - 1)) ELSE s

\* String.prototype.trim
Trim(s) == TrimRight(TrimLeft(s))

\* String.prototype.startsWith
StartsWith(s, p) == Len(s) >= Len(p) /\ SubSeq(s, 1, Len(p)) = p

RECURSIVE ReplaceAll(_, _, _)
\* String.prototype.replace with a global literal pattern p (non-empty).
ReplaceAll(s, p, r) ==
  IF Len(s) = 0 THEN <<>>
  ELSE IF StartsWith(s, p)
       THEN r \o ReplaceAll(SubSeq(s, Len(p) + 1, Len(s)), p, r)
       ELSE <<s[1]>> \o ReplaceAll(Tail(s), p, r)

\* ------------------------------------------------------- the live document
Attr(n, v) == [name |-> n, value |-> v]

HtmlElement ==
  [parent |-> NoElement, tag |-> "html", attrs |-> <<>>, vis |-> TRUE, text |-> <<>>,
   throws |-> FALSE]

BodyElement ==
  [parent |-> HtmlIndex, tag |-> "body", attrs |-> <<>>, vis |-> TRUE, text |-> <<>>,
   throws |-> FALSE]

\* The elements a page holds in this model.  vis is what the computed style
\* and the bounding box of the element give in isElementVisible; text is the
\* element's own text run (its first child node when non-empty); throws tells
\* that a property the script reads of the element (tagName, getAttribute) is
\* shadowed, as a form control of that name shadows it on its form, so that
\* using it throws a TypeError.
ElementKinds ==
  { [tag |-> "div", attrs |-> <<>>, vis |-> TRUE, text |-> <<>>, throws |-> FALSE],
    [tag |-> "h1", attrs |-> <<Attr("id", <<"t">>)>>, vis |-> TRUE,
     text |-> <<"H", "i", " ">>, throws |-> FALSE],
    [tag |-> "button",
     attrs |-> <<Attr("onclick", <<"x", "(", ")">>),
                 Attr("class", <<"b", " ", "1", "x">>),
                 Attr("title", <<"s", "\"">>)>>,
     vis |-> TRUE, text |-> <<"G", "o">>, throws |-> FALSE],
    [tag |-> "input",
     attrs |-> <<Attr("type", <<"t">>), Attr("placeholder", <<>>)>>,
     vis |-> FALSE, text |-> <<>>, throws |-> FALSE] }

\* A form whose tagName is shadowed by one of its controls.
ThrowingKinds ==
  { [tag |-> "form", attrs |-> <<>>, vis |-> TRUE, text |-> <<>>, throws |-> TRUE] }

El(doc, i) == IF i = HtmlIndex THEN HtmlElement ELSE doc[i]

HasAttribute(el, n) == \E k \in 1..Len(el.attrs) : el.attrs[k].name = n

\* Element.getAttribute; <<>> stands for both null and "" where the code
\* only tests truthiness, HasAttribute tells them apart.
GetAttribute(el, n) ==
  IF HasAttribute(el, n)
  THEN el.attrs[CHOOSE k \in 1..Len(el.attrs) : el.attrs[k].name = n].value
  ELSE <<>>

\* Element.id
ElementId(el) == GetAttribute(el, "id")

\* Element children of p, in document order: elements are only ever
\* appended as the last child of their parent, so index order is sibling order.
Children(doc, p) ==
  SelectSeq([i \in 1..Len(doc) |-> i], LAMBDA i : doc[i].parent = p)

RECURSIVE Descendants(_, _)
Descendants(doc, e) ==
  {e} \cup UNION { Descendants(doc, c) : c \in {i \in 1..Len(doc) : doc[i].parent = e} }

RECURSIVE PreOrderFrom(_, _)
RECURSIVE PreOrderList(_, _)
PreOrderList(doc, cs) ==
  IF Len(cs) = 0 THEN <<>>
  ELSE PreOrderFrom(doc, cs[1]) \o PreOrderList(doc, Tail(cs))
\* Elements of the subtree of e in document order.
PreOrderFrom(doc, e) == <<e>> \o PreOrderList(doc, Children(doc, e))

\* Element.remove(): the subtree goes, the remaining elements are renumbered.
RemoveSubtree(doc, e) ==
  LET gone == Descendants(doc, e)
      keep == SelectSeq([i \in 1..Len(doc) |-> i], LAMBDA i : i \notin gone)
      newIndex(i) == IF i <= 0 THEN i ELSE i - Cardinality({j \in gone : j < i})
  IN [k \in 1..Len(keep) |->
        [doc[keep[k]] EXCEPT !.parent = newIndex(@)]]

\* parent.appendChild(el)
AppendChild(doc, p, el) ==
  Append(doc, [parent |-> p, tag |-> el.tag, attrs |-> el.attrs, vis |-> el.vis,
               text |-> el.text, throws |-> el.throws])

ContainerId == <<"playwright-highlight-container">>

\* document.getElementById: the first element in document order with the id.
GetElementById(doc, id) ==
  LET order == PreOrderFrom(doc, BodyIndex)
      hits == SelectSeq(order, LAMBDA i : ElementId(doc[i]) = id)
  IN IF Len(hits) = 0 THEN NoElement ELSE hits[1]

\* The elements the page itself put under body (the overlay is not counted).
OverlayElements(doc) ==
  UNION { Descendants(doc, i) :
            i \in {j \in 1..Len(doc) : ElementId(doc[j]) = ContainerId} }

PageElements(doc) == (1..Len(doc)) \ (OverlayElements(doc) \cup {BodyIndex})

\* --------------------------------------------- scripts/domExtractor.ts
\* Segment of one ancestor in getXPath's upward walk, then the rest of the walk.
RECURSIVE XPathWalk(_, _, _)
XPathWalk(doc, current, path) ==
  IF current = NoElement THEN path
  ELSE
    LET el == El(doc, current)
        id == ElementId(el)
        index == 1 + Cardinality({s \in 1..Len(doc) :
                       /\ current # HtmlIndex
                       /\ s < current
                       /\ doc[s].parent = el.parent
                       /\ doc[s].tag = el.tag})
    IN IF id # <<>>
       THEN <<(<<el.tag, "[", "@", "id", "=", "\"">> \o id \o <<"\"", "]">>)>> \o path
       ELSE XPathWalk(doc, el.parent,
              <<(IF index > 1
                 THEN <<el.tag, "[">> \o NumToString(index) \o <<"]">>
                 ELSE <<el.tag>>)>> \o path)

\* A path that names only the parent and the tag of the element.
getXPathWithoutOrdinals(doc, e) ==
  <<"/", "/", "*", "[">> \o NumToString(doc[e].parent) \o <<"]", "/", doc[e].tag>>

getXPath(doc, e) ==
  LET id == ElementId(doc[e])
  IN IF id # <<>> THEN <<"/", "/", "*", "[", "@", "id", "=", "\"">> \o id \o <<"\"", "]">>
     ELSE IF e = BodyIndex THEN <<"/", "html", "/", "body">>
     ELSE <<"/">> \o Join(XPathWalk(doc, e, <<>>), <<"/">>)

\* The style and geometry tests are read off the element's vis field.
isElementVisible(doc, e) == doc[e].vis

\* element.tagName.toLowerCase() (line 110) throws; nothing in the script
\* catches it.
ReadThrows(doc, e) == doc[e].throws

InteractiveTags ==
  {"a", "button", "input", "select", "textarea", "option", "optgroup",
   "fieldset", "legend", "details", "summary"}

ClickableAttributes ==
  {"onclick", "onmousedown", "onmouseup", "onmousemove", "onmouseover", "onmouseout"}

InteractiveRoles ==
  {<<"button">>, <<"link">>, <<"menuitem">>, <<"tab">>, <<"option">>}

isElementInteractive(doc, e) ==
  LET el == doc[e]
      role == GetAttribute(el, "role")
      tabIndex == GetAttribute(el, "tabindex")
  IN \/ el.tag \in InteractiveTags
     \/ \E a \in ClickableAttributes : HasAttribute(el, a)
     \/ (role # <<>> /\ role \in InteractiveRoles)
     \/ (tabIndex # <<>> /\ tabIndex # <<"-", "1">>)

getElementAttributes(doc, e) == doc[e].attrs

RECURSIVE TextContent(_, _)
RECURSIVE TextContentList(_, _)
TextContentList(doc, cs) ==
  IF Len(cs) = 0 THEN <<>>
  ELSE TextContent(doc, cs[1]) \o TextContentList(doc, Tail(cs))
\* Node.textContent: the text of the element and of its descendants.
TextContent(doc, e) == doc[e].text \o TextContentList(doc, Children(doc, e))

getElementText(doc, e) == Trim(TextContent(doc, e))

\* The child loop run from the last child to the first.
ChildNodesBackwards(doc, e) ==
  LET cs == Children(doc, e)
      texts == IF Len(doc[e].text) > 0 THEN <<[nodeType |-> "TEXT_NODE", el |-> e]>>
               ELSE <<>>
  IN [i \in 1..Len(cs) |-> [nodeType |-> "ELEMENT_NODE", el |-> cs[Len(cs) + 1 - i]]]
     \o texts

\* element.childNodes: the element's own text run, then its element children.
ChildNodes(doc, e) ==
  (IF Len(doc[e].text) > 0 THEN <<[nodeType |-> "TEXT_NODE", el |-> e]>> ELSE <<>>)
  \o [k \in 1..Len(Children(doc, e)) |->
        [nodeType |-> "ELEMENT_NODE", el |-> Children(doc, e)[k]]]

HighlightContainerElement ==
  [parent |-> BodyIndex, tag |-> "div",
   attrs |-> <<Attr("id", ContainerId), Attr("style", <<"fixed">>)>>,
   vis |-> TRUE, text |-> <<>>, throws |-> FALSE]

\* No box is drawn.
drawNoBox(st, e, index, isFocused) == st

\* createHighlightElement: a box with a label child, appended to the container.
createHighlightElement(st, e, index, isFocused) ==
  IF st.highlightContainer = NoElement THEN st
  ELSE
    LET box == [parent |-> st.highlightContainer, tag |-> "div",
                attrs |-> <<Attr("class", <<"playwright-highlight">>),
                            Attr("style", <<(IF isFocused THEN "red" ELSE "green")>>)>>,
                vis |-> st.doc[e].vis, text |-> <<>>, throws |-> FALSE]
        d1 == AppendChild(st.doc, st.highlightContainer, box)
        label == [parent |-> Len(d1), tag |-> "div",
                  attrs |-> <<Attr("style", <<(IF isFocused THEN "red" ELSE "green")>>)>>,
                  vis |-> st.doc[e].vis, text |-> NumToString(index),
                  throws |-> FALSE]
    IN [st EXCEPT !.doc = AppendChild(d1, Len(d1), label)]

NodeKey(n) == <<"node", n>>
TextKey(n) == <<"text", n>>

RECURSIVE traverseElement(_, _, _)
RECURSIVE traverseChildren(_, _, _, _, _, _)

\* The child loop of traverseElement (lines 259-279): i is the loop index into
\* the live childNodes list, children the ids pushed so far.
traverseChildren(st, e, nodeId, isVisible, i, children) ==
  IF st.threw \/ i >= Len(ChildNodes(st.doc, e))
  THEN [st |-> st, children |-> children]
  ELSE
    LET childNode == ChildNodes(st.doc, e)[i + 1]
    IN IF childNode.nodeType = "TEXT_NODE"
       THEN LET textContent == Trim(st.doc[e].text)
            IN IF Len(textContent) > 0
               THEN LET textNodeId == TextKey(st.nodeIdCounter)
                        st1 == [st EXCEPT
                                  !.nodeIdCounter = @ + 1,
                                  !.map = @ @@ (textNodeId :>
                                     [type |-> "TEXT_NODE", text |-> textContent,
                                      isVisible |-> isVisible])]
                    IN traverseChildren(st1, e, nodeId, isVisible, i + 1,
                                        Append(children, textNodeId))
               ELSE traverseChildren(st, e, nodeId, isVisible, i + 1, children)
       ELSE LET r == traverseElement(st, childNode.el, <<nodeId>>)
            IN traverseChildren(r.st, e, nodeId, isVisible, i + 1,
                                Append(children, r.id))

\* A counter that moves on every visited element.
AdvanceOnEveryElement(counter, isVisible, isInteractive) == counter + 1

\* highlightIndex after lines 238-241: it moves only when the index is given.
AdvanceHighlightIndex(counter, isVisible, isInteractive) ==
  IF isVisible /\ isInteractive THEN counter + 1 ELSE counter

\* A highlight index for every interactive element, shown or not.
GrantsToInteractive(isVisible, isInteractive) == isInteractive

\* The test of line 238 that gives an element its highlight index.
GrantsHighlightIndex(isVisible, isInteractive) == isVisible /\ isInteractive

\* An element index for text nodes only.
GrantsToTextOnly(currentHighlightIndex, nodeType) == nodeType = "TEXT_NODE"

\* An element index for every node, as the comment of line 243 has it.
GrantsToEveryNode(currentHighlightIndex, nodeType) == TRUE

\* The rule of line 245 that grants an element index.
GrantsElementIndex(currentHighlightIndex, nodeType) ==
  currentHighlightIndex # NullIdx \/ nodeType = "TEXT_NODE"

\* An exception leaves traverseElement and every call above it: nothing more
\* is recorded.
traverseThrew(st, nodeId) ==
  [st |-> [st EXCEPT !.threw = TRUE], id |-> nodeId]

\* Line 299: the node is stored once its children are done.
traverseStored(r, nodeId, nodeData) ==
  IF r.st.threw THEN [st |-> r.st, id |-> nodeId]
  ELSE [st |-> [r.st EXCEPT !.map = @ @@ (nodeId :> nodeData)], id |-> nodeId]

\* traverseElement (lines 226-302).  st carries the script's mutable state:
\* the document, nodeMap and the three counters.  parentId is <<>> for null.
traverseElement(st, e, parentId) ==
  IF ReadThrows(st.doc, e) THEN traverseThrew(st, NodeKey(st.nodeIdCounter))
  ELSE
  LET nodeId == NodeKey(st.nodeIdCounter)
      isVisible == isElementVisible(st.doc, e)
      isInteractive == isElementInteractive(st.doc, e)
      xpath == getXPath(st.doc, e)
      attributes == getElementAttributes(st.doc, e)
      text == getElementText(st.doc, e)
      currentHighlightIndex ==
        IF GrantsHighlightIndex(isVisible, isInteractive)
        THEN st.highlightIndex ELSE NullIdx
      st1 == [st EXCEPT
                !.nodeIdCounter = @ + 1,
                !.highlightIndex = AdvanceHighlightIndex(@, isVisible, isInteractive)]
      grants == GrantsElementIndex(currentHighlightIndex, "ELEMENT_NODE")
      currentElementIndex == IF grants THEN st1.elementIndex ELSE NullIdx
      st2 == [st1 EXCEPT !.elementIndex = IF grants THEN @ + 1 ELSE @]
      st3 == IF st2.doHighlightElements /\ currentHighlightIndex # NullIdx
             THEN createHighlightElement(st2, e, currentHighlightIndex,
                                         currentHighlightIndex = st2.focusHighlightIndex)
             ELSE st2
      r == traverseChildren(st3, e, nodeId, isVisible, 0, <<>>)
      nodeData ==
        [type |-> "ELEMENT_NODE",
         tagName |-> st.doc[e].tag,
         xpath |-> xpath,
         attributes |-> attributes,
         text |-> text,
         isVisible |-> isVisible,
         isInteractive |-> isInteractive,
         isTopElement |-> (parentId = <<>>),
         isInViewport |-> isVisible,
         shadowRoot |-> FALSE,
         highlightIndex |-> currentHighlightIndex,
         elementIndex |-> currentElementIndex,
         children |-> r.children]
  IN traverseStored(r, nodeId, nodeData)

\* The overlay of an earlier run is left in place.
keepExistingContainer(doc) == doc

\* Lines 15-21: the overlay of an earlier run is removed.
removeExistingContainer(doc) ==
  LET existingContainer == GetElementById(doc, ContainerId)
  IN IF existingContainer # NoElement THEN RemoveSubtree(doc, existingContainer)
     ELSE doc

EmptyMap == [k \in {} |-> [type |-> "TEXT_NODE"]]

\* buildDomTreeOverlay: the document it leaves behind and the value it returns.
buildDomTreeOverlay(doc, doHighlightElements, focusHighlightIndex) ==
  LET d1 == removeExistingContainer(doc)
      d2 == IF doHighlightElements
            THEN AppendChild(d1, BodyIndex, HighlightContainerElement) ELSE d1
      st0 == [doc |-> d2,
              highlightContainer |-> IF doHighlightElements THEN Len(d2) ELSE NoElement,
              doHighlightElements |-> doHighlightElements,
              focusHighlightIndex |-> focusHighlightIndex,
              map |-> EmptyMap,
              nodeIdCounter |-> 0,
              highlightIndex |-> 0,
              elementIndex |-> 0,
              threw |-> FALSE]
      r == traverseElement(st0, BodyIndex, <<>>)
  IN [doc |-> r.st.doc, rootId |-> r.id, map |-> r.st.map, threw |-> r.st.threw]

\* ------------------------------------------------- the page's CSS engine
DigitChars == {Digit[k] : k \in 1..Len(Digit)}

\* The grave accent character, as a piece.
Backtick == "(grave)"

PunctChars ==
  {"/", "[", "]", "@", "=", "\"", "'", "<", ">", Backtick, "\n", "\r", "\t", " ", ".",
   "*", "(", ")", "\\", ":", "-", "_", "#", ",", "+", "~", "|", "^", "$"}

\* A word piece: letters (and inner "-", "_"), starting with a letter.
IsWord(p) == p \notin PunctChars \cup DigitChars

IsIdentStart(p) == IsWord(p) \/ p = "_"
IsIdentChar(p) == IsWord(p) \/ p \in DigitChars \/ p \in {"_", "-"}

RECURSIVE SkipWs(_, _)
SkipWs(s, i) ==
  IF i <= Len(s) /\ IsWhitespace(s[i]) THEN SkipWs(s, i + 1) ELSE i

RECURSIVE IdentEnd(_, _)
\* First position at or after i that no longer continues an identifier.
IdentEnd(s, i) ==
  IF i <= Len(s) /\ IsIdentChar(s[i]) THEN IdentEnd(s, i + 1) ELSE i

ParseFail == [ok |-> FALSE, next |-> 0, val |-> <<>>]

\* <ident-token> at position i.
ParseIdent(s, i) ==
  IF i > Len(s) THEN ParseFail
  ELSE IF IsIdentStart(s[i])
          \/ (s[i] = "-" /\ i + 1 <= Len(s) /\ (IsIdentStart(s[i + 1]) \/ s[i + 1] = "-"))
       THEN [ok |-> TRUE, next |-> IdentEnd(s, i + 1),
             val |-> SubSeq(s, i, IdentEnd(s, i + 1) - 1)]
       ELSE ParseFail

RECURSIVE ParseStringBody(_, _, _, _)
\* <string-token>: the body after the opening quote q.  A backslash takes the
\* next character literally; a raw newline makes a bad string; a string still
\* open at the end of the input is closed there (CSS Syntax 4.3.5), which the
\* result records as closed = FALSE.
ParseStringBody(s, i, q, acc) ==
  IF i > Len(s) THEN [ok |-> TRUE, next |-> i, val |-> acc, closed |-> FALSE]
  ELSE IF s[i] = q THEN [ok |-> TRUE, next |-> i + 1, val |-> acc, closed |-> TRUE]
  ELSE IF s[i] = "\n" THEN [ok |-> FALSE, next |-> 0, val |-> <<>>, closed |-> FALSE]
  ELSE IF s[i] = "\\"
       THEN IF i + 1 > Len(s)
            THEN [ok |-> TRUE, next |-> i + 1, val |-> acc, closed |-> FALSE]
            ELSE ParseStringBody(s, i + 2, q, Append(acc, s[i + 1]))
  ELSE ParseStringBody(s, i + 1, q, Append(acc, s[i]))

AttrFail == [ok |-> FALSE, next |-> 0, name |-> "", op |-> <<>>, val |-> <<>>]

\* Length of the attribute matcher at position j, 0 when there is none.
MatcherLen(s, j) ==
  IF s[j] = "=" THEN 1
  ELSE IF s[j] \in {"*", "^", "$", "~", "|"} /\ j + 1 <= Len(s) /\ s[j + 1] = "="
       THEN 2
  ELSE 0

IdentAsValue(id) == [ok |-> id.ok, next |-> id.next, val |-> id.val, closed |-> TRUE]

\* The value of an attribute selector at position v: a string or an identifier.
ParseAttrValue(s, v) ==
  IF v > Len(s) THEN [ok |-> FALSE, next |-> 0, val |-> <<>>, closed |-> FALSE]
  ELSE IF s[v] \in {"\"", "'"} THEN ParseStringBody(s, v + 1, s[v], <<>>)
  ELSE IdentAsValue(ParseIdent(s, v))

\* The closing bracket, expected at position e.
AttrClose(s, name, op, value, e) ==
  IF e > Len(s) \/ s[e] # "]" THEN AttrFail
  ELSE [ok |-> TRUE, next |-> e + 1, name |-> name, op |-> op, val |-> value.val]

AttrAfterValue(s, name, op, value) ==
  IF ~value.ok \/ ~value.closed THEN AttrFail
  ELSE AttrClose(s, name, op, value, SkipWs(s, value.next))

AttrMatcher(s, name, j, opLen) ==
  IF opLen = 0 THEN AttrFail
  ELSE AttrAfterValue(s, name, SubSeq(s, j, j + opLen - 1),
                      ParseAttrValue(s, SkipWs(s, j + opLen)))

\* After the attribute name: "]" or a matcher and a value.
AttrAfterName(s, name, j) ==
  IF j > Len(s) THEN AttrFail
  ELSE IF s[j] = "]"
       THEN [ok |-> TRUE, next |-> j + 1, name |-> name, op |-> <<"has">>, val |-> <<>>]
  ELSE AttrMatcher(s, name, j, MatcherLen(s, j))

AttrName(s, n) ==
  IF ~n.ok \/ Len(n.val) # 1 THEN AttrFail
  ELSE AttrAfterName(s, n.val[1], SkipWs(s, n.next))

\* An attribute selector "[" name ( "]" | op value "]" ), s[i] = "[".
ParseAttribute(s, i) == AttrName(s, ParseIdent(s, SkipWs(s, i + 1)))

FilterFail(c) == [ok |-> FALSE, next |-> 0, c |-> c]

RECURSIVE ParseFilters(_, _, _)
ClassFilterParsed(s, c, id) ==
  IF id.ok THEN ParseFilters(s, id.next, [c EXCEPT !.classes = Append(@, id.val)])
  ELSE FilterFail(c)

AttrFilterParsed(s, c, a) ==
  IF a.ok
  THEN ParseFilters(s, a.next,
         [c EXCEPT !.attrs = Append(@, [name |-> a.name, op |-> a.op, val |-> a.val])])
  ELSE FilterFail(c)

\* The class and attribute filters that follow a type selector.
ParseFilters(s, i, c) ==
  IF i > Len(s) THEN [ok |-> TRUE, next |-> i, c |-> c]
  ELSE IF s[i] = "." THEN ClassFilterParsed(s, c, ParseIdent(s, i + 1))
  ELSE IF s[i] = "[" THEN AttrFilterParsed(s, c, ParseAttribute(s, i))
  ELSE [ok |-> TRUE, next |-> i, c |-> c]

EmptyCompound == [comb |-> "", tag |-> "", classes |-> <<>>, attrs |-> <<>>, scope |-> FALSE]

\* A compound needs a type selector or at least one filter.
CompoundParsed(i, hasType, r) ==
  IF r.ok /\ (hasType \/ r.next > i) THEN r ELSE FilterFail(EmptyCompound)

CompoundFrom(s, i, comb, hasType) ==
  CompoundParsed(i, hasType,
    ParseFilters(s, IF hasType THEN i + 1 ELSE i,
                 [EmptyCompound EXCEPT !.comb = comb,
                                       !.tag = IF hasType THEN s[i] ELSE ""]))

\* A compound selector at position i, reached over combinator comb.
ParseCompound(s, i, comb) ==
  CompoundFrom(s, i, comb, i <= Len(s) /\ (IsWord(s[i]) \/ s[i] = "*"))

Combinators == {">", "+", "~"}

SelectorFail == [ok |-> FALSE, parts |-> <<>>]

RECURSIVE ParseRest(_, _, _)
RestParsed(s, parts, c) ==
  IF c.ok THEN ParseRest(s, c.next, Append(parts, c.c)) ELSE SelectorFail

\* At position j a combinator and a compound follow; a descendant combinator
\* needs white space before j.
RestAt(s, i, j, parts) ==
  IF j > Len(s) THEN [ok |-> TRUE, parts |-> parts]
  ELSE IF s[j] \in Combinators
       THEN RestParsed(s, parts, ParseCompound(s, SkipWs(s, j + 1), s[j]))
  ELSE IF j = i THEN SelectorFail
  ELSE RestParsed(s, parts, ParseCompound(s, j, " "))

\* What follows a compound: the end, or a combinator and the next compound.
ParseRest(s, i, parts) == RestAt(s, i, SkipWs(s, i), parts)

SelectorAt(s, i, relative) ==
  IF i > Len(s) THEN SelectorFail
  ELSE IF s[i] \in Combinators
       THEN IF relative
            THEN ParseRest(s, i, <<[EmptyCompound EXCEPT !.scope = TRUE]>>)
            ELSE SelectorFail
  ELSE RestParsed(s, <<>>, ParseCompound(s, i, ""))

\* Parses a complex selector.  relative tells whether the engine accepts a
\* selector that starts with a combinator (it is then anchored at :scope),
\* as Playwright's engine does and document.querySelector does not.
ParseSelector(s, relative) == SelectorAt(s, SkipWs(s, 1), relative)

RECURSIVE Split(_, _)
\* String.prototype.split on the set of separator characters seps: empty
\* tokens are kept, as split(" ") keeps them.
Split(s, seps) ==
  IF \A k \in 1..Len(s) : s[k] \notin seps THEN <<s>>
  ELSE LET k == CHOOSE k \in 1..Len(s) :
                  s[k] \in seps /\ \A m \in 1..(k - 1) : s[m] \notin seps
       IN <<SubSeq(s, 1, k - 1)>> \o Split(SubSeq(s, k + 1, Len(s)), seps)

Contains(v, sub) ==
  \E i \in 0..(Len(v) - Len(sub)) : SubSeq(v, i + 1, i + Len(sub)) = sub

\* Element.classList
ClassList(el) ==
  LET toks == Split(GetAttribute(el, "class"), {" ", "\n", "\t", "\r"})
  IN {toks[k] : k \in {m \in 1..Len(toks) : toks[m] # <<>>}}

MatchAttribute(el, a) ==
  LET v == GetAttribute(el, a.name)
  IN /\ HasAttribute(el, a.name)
     /\ CASE a.op = <<"has">> -> TRUE
          [] a.op = <<"=">> -> v = a.val
          [] a.op = <<"*", "=">> -> a.val # <<>> /\ Contains(v, a.val)
          [] a.op = <<"^", "=">> -> a.val # <<>> /\ StartsWith(v, a.val)
          [] a.op = <<"$", "=">> ->
               /\ a.val # <<>> /\ Len(v) >= Len(a.val)
               /\ SubSeq(v, Len(v) - Len(a.val) + 1, Len(v)) = a.val
          [] a.op = <<"~", "=">> ->
               \E k \in 1..Len(Split(v, {" "})) : Split(v, {" "})[k] = a.val
          [] a.op = <<"|", "=">> -> v = a.val \/ StartsWith(v, a.val \o <<"-">>)

MatchCompound(doc, i, c) ==
  LET el == El(doc, i)
  IN IF c.scope THEN i = HtmlIndex
     ELSE /\ c.tag \in {"", "*", el.tag}
          /\ \A k \in 1..Len(c.classes) : c.classes[k] \in ClassList(el)
          /\ \A k \in 1..Len(c.attrs) : MatchAttribute(el, c.attrs[k])

RECURSIVE Ancestors(_, _)
Ancestors(doc, i) ==
  IF El(doc, i).parent = NoElement THEN {}
  ELSE {El(doc, i).parent} \cup Ancestors(doc, El(doc, i).parent)

PreviousSiblings(doc, i) ==
  IF i = HtmlIndex THEN {}
  ELSE {s \in 1..Len(doc) : s < i /\ doc[s].parent = doc[i].parent}

RECURSIVE MatchChain(_, _, _, _)
\* Element i matches the first k compounds of the selector.
MatchChain(doc, i, parts, k) ==
  /\ MatchCompound(doc, i, parts[k])
  /\ \/ k = 1
     \/ /\ parts[k].comb = ">"
        /\ El(doc, i).parent # NoElement
        /\ MatchChain(doc, El(doc, i).parent, parts, k - 1)
     \/ /\ parts[k].comb = " "
        /\ \E a \in Ancestors(doc, i) : MatchChain(doc, a, parts, k - 1)
     \/ /\ parts[k].comb = "~"
        /\ \E a \in PreviousSiblings(doc, i) : MatchChain(doc, a, parts, k - 1)
     \/ /\ parts[k].comb = "+"
        /\ \E a \in PreviousSiblings(doc, i) :
             /\ \A b \in PreviousSiblings(doc, i) : b <= a
             /\ MatchChain(doc, a, parts, k - 1)

\* Elements of the document matching a parsed selector, in document order.
QuerySelectorAll(doc, parts) ==
  SelectSeq(<<HtmlIndex>> \o PreOrderFrom(doc, BodyIndex),
            LAMBDA i : MatchChain(doc, i, parts, Len(parts)))

\* ------------------------------------------------------------ JS values
\* A value as the action layer may receive it: v is always a sequence.
Str(x) == [t |-> "string", v |-> x]
Num(x) == [t |-> "number", v |-> x]
Obj(x) == [t |-> "object", v |-> x]
Undefined == [t |-> "undefined", v |-> <<>>]
Null == [t |-> "null", v |-> <<>>]

\* Template-literal interpolation of a value.
JSToString(x) ==
  IF x.t = "undefined" THEN <<"undefined">>
  ELSE IF x.t = "null" THEN <<"null">>
  ELSE x.v

IndexToString(h) == IF h = NullIdx THEN <<"null">> ELSE NumToString(h)

\* ------------------------------------------ DOMElementNode descriptors
\* The node whose children list holds key, if any.
ParentKeys(map, key) ==
  {k \in DOMAIN map :
     /\ map[k].type = "ELEMENT_NODE"
     /\ \E c \in 1..Len(map[k].children) : map[k].children[c] = key}

RECURSIVE DescriptorOf(_, _)
\* The DOMElementNode built for an element node of the returned map, with
\* its parent back-reference.
DescriptorOf(map, key) ==
  [tagName |-> map[key].tagName,
   xpath |-> Str(map[key].xpath),
   attributes |-> Obj([k \in 1..Len(map[key].attributes) |->
                        [name |-> map[key].attributes[k].name,
                         value |-> Str(map[key].attributes[k].value)]]),
   isVisible |-> map[key].isVisible,
   highlightIndex |-> map[key].highlightIndex,
   parent |-> IF ParentKeys(map, key) = {} THEN Null
              ELSE Obj(<<DescriptorOf(map, CHOOSE k \in ParentKeys(map, key) : TRUE)>>)]

ElementKeys(map) == {k \in DOMAIN map : map[k].type = "ELEMENT_NODE"}

\* The values an index field takes over the element nodes of a node map.
IndexedKeys(map, field) == {k \in ElementKeys(map) : map[k][field] # NullIdx}

IndexValues(map, field) == {map[k][field] : k \in IndexedKeys(map, field)}

\* --------------------------------------- services/browserContext.ts
_convert_simple_xpath_to_css_selector(xpath) ==
  IF StartsWith(xpath, <<"/", "html", "/", "body", "/">>)
  THEN ReplaceAll(ReplaceAll(xpath, <<"/", "html", "/", "body", "/">>, <<>>),
                  <<"/">>, <<" ", ">", " ">>)
  ELSE ReplaceAll(xpath, <<"/">>, <<" ", ">", " ">>)

\* /^[a-zA-Z_][a-zA-Z0-9_-]*$/.test(class_name)
ValidClassName(cn) ==
  /\ Len(cn) > 0
  /\ IsIdentStart(cn[1])
  /\ \A k \in 2..Len(cn) : IsIdentChar(cn[k])

RECURSIVE ClassFilters(_)
\* The loop over the class tokens (lines 223-234).
ClassFilters(classes) ==
  IF Len(classes) = 0 THEN <<>>
  ELSE (IF Trim(classes[1]) # <<>> /\ ValidClassName(classes[1])
        THEN <<".">> \o classes[1] ELSE <<>>)
       \o ClassFilters(Tail(classes))

SAFE_ATTRIBUTES(include_dynamic_attributes) ==
  {"id", "name", "type", "placeholder", "aria-label", "aria-labelledby",
   "aria-describedby", "role", "for", "autocomplete", "required", "readonly",
   "alt", "title", "src", "href", "target"}
  \cup (IF include_dynamic_attributes
        THEN {"data-id", "data-qa", "data-cy", "data-testid"} ELSE {})

\* /["'<>`\n\r\t]/.test(value)
HasSpecialChar(v) ==
  \E k \in 1..Len(v) : v[k] \in {"\"", "'", "<", ">", Backtick, "\n", "\r", "\t"}

RECURSIVE CollapseWhitespace(_)
\* value.replace(/\s+/g, " ")
CollapseWhitespace(v) ==
  IF Len(v) = 0 THEN <<>>
  ELSE IF IsWhitespace(v[1])
       THEN <<" ">> \o CollapseWhitespace(TrimLeft(v))
       ELSE <<v[1]>> \o CollapseWhitespace(Tail(v))

\* The filter appended for one retained attribute (lines 283-296).
AttributeFilter(attribute, value) ==
  LET safe_attribute == ReplaceAll(<<attribute>>, <<":">>, <<"\\", ":">>)
      text == JSToString(value)
  IN IF value.t = "string" /\ value.v = <<>>
     THEN <<"[">> \o safe_attribute \o <<"]">>
     ELSE IF HasSpecialChar(text)
          THEN LET collapsed_value == Trim(CollapseWhitespace(text))
                   safe_value == ReplaceAll(collapsed_value, <<"\"">>, <<"\\", "\"">>)
               IN <<"[">> \o safe_attribute \o <<"*", "=", "\"">> \o safe_value
                  \o <<"\"", "]">>
          ELSE <<"[">> \o safe_attribute \o <<"=", "\"">> \o text \o <<"\"", "]">>

RECURSIVE AttributeFilters(_, _)
\* The loop over Object.entries(element.attributes) (lines 269-297).
AttributeFilters(entries, include_dynamic_attributes) ==
  IF Len(entries) = 0 THEN <<>>
  ELSE (IF \/ entries[1].name = "class"
           \/ entries[1].name = ""
           \/ entries[1].name \notin SAFE_ATTRIBUTES(include_dynamic_attributes)
        THEN <<>>
        ELSE AttributeFilter(entries[1].name, entries[1].value))
       \o AttributeFilters(Tail(entries), include_dynamic_attributes)

Threw == [threw |-> TRUE, value |-> <<>>]
Returned(x) == [threw |-> FALSE, value |-> x]

\* The class entry of an attributes object, Undefined when absent.
ClassValue(entries) ==
  IF \E k \in 1..Len(entries) : entries[k].name = "class"
  THEN entries[CHOOSE k \in 1..Len(entries) : entries[k].name = "class"].value
  ELSE Undefined

Truthy(x) ==
  \/ x.t = "object"
  \/ (x.t = "string" /\ x.v # <<>>)
  \/ (x.t = "number" /\ x.v \notin {<<"0">>, <<"NaN">>})
  \/ (x.t = "boolean" /\ x.v = <<"true">>)

\* The awaited conversion call of lines 208-210: a TypeError when xpath is
\* no string.
ConvertCall(element) ==
  IF element.xpath.t # "string" THEN Threw
  ELSE Returned(_convert_simple_xpath_to_css_selector(element.xpath.v))

\* What follows the conversion inside the try block (lines 212-299).
SynthesisAfterConvert(element, css_selector, include_dynamic_attributes) ==
  IF element.attributes.t # "object" THEN Threw
  ELSE
    LET entries == element.attributes.v
        cls == ClassValue(entries)
        useClass == Truthy(cls) /\ include_dynamic_attributes
    IN IF useClass /\ cls.t # "string" THEN Threw
       ELSE Returned(
              css_selector
              \o (IF useClass THEN ClassFilters(Split(cls.v, {" "})) ELSE <<>>)
              \o AttributeFilters(entries, include_dynamic_attributes))

FallbackSelector(element) ==
  <<(IF element.tagName # "" THEN element.tagName ELSE "*")>>
  \o <<"[", "highlight_index", "=", "'">> \o IndexToString(element.highlightIndex)
  \o <<"'", "]">>

\* The conversion call placed before the try block: its TypeError escapes.
SelectorConvertedOutsideTry(element, include_dynamic_attributes) ==
  LET c == ConvertCall(element)
      body == IF c.threw THEN Threw
              ELSE SynthesisAfterConvert(element, c.value, include_dynamic_attributes)
  IN IF c.threw
     THEN [rejected |-> TRUE, caught |-> FALSE, value |-> <<>>]
     ELSE IF body.threw
     THEN [rejected |-> FALSE, caught |-> TRUE, value |-> FallbackSelector(element)]
     ELSE [rejected |-> FALSE, caught |-> FALSE, value |-> body.value]

\* _enhanced_css_selector_for_element: rejected tells whether the promise
\* rejects, caught whether the catch block ran.
_enhanced_css_selector_for_element(element, include_dynamic_attributes) ==
  LET c == ConvertCall(element)
      body == IF c.threw THEN Threw
              ELSE SynthesisAfterConvert(element, c.value, include_dynamic_attributes)
  IN IF body.threw
     THEN [rejected |-> FALSE, caught |-> TRUE, value |-> FallbackSelector(element)]
     ELSE [rejected |-> FALSE, caught |-> FALSE, value |-> body.value]

RECURSIVE ParentChainWalk(_, _)
\* The while loop of lines 152-155; the chain comes back nearest parent
\* first.  Reading .parent of undefined is a TypeError.
ParentChainWalk(current, parent) ==
  IF current.parent.t = "null" THEN Returned(parent)
  ELSE IF current.parent.t = "object"
       THEN ParentChainWalk(current.parent.v[1], Append(parent, current.parent.v[1]))
       ELSE Threw

\* The chain left nearest parent first.
KeepWalkOrder(q) == q

\* Array.prototype.reverse (line 156).
Reverse(q) == [k \in 1..Len(q) |-> q[Len(q) + 1 - k]]

\* locator(css).elementHandle(): the handle of the one matching element; an
\* unusable selector, no match (timeout) and several matches (strict mode)
\* all throw.
LocatorElementHandle(doc, css, relative) ==
  LET sel == ParseSelector(css, relative)
      hits == IF sel.ok THEN QuerySelectorAll(doc, sel.parts) ELSE <<>>
  IN IF sel.ok /\ Len(hits) = 1 THEN Returned(<<hits[1]>>) ELSE Threw

\* querySelector(css): the first match or null (<<>>); an unusable selector throws.
QuerySelector(doc, css, relative) ==
  LET sel == ParseSelector(css, relative)
      hits == IF sel.ok THEN QuerySelectorAll(doc, sel.parts) ELSE <<>>
  IN IF ~sel.ok THEN Threw
     ELSE IF Len(hits) = 0 THEN Returned(<<>>) ELSE Returned(<<hits[1]>>)

\* The try block of get_locate_element (lines 173-194): <<e>> for a handle on
\* element e, <<>> for null.
ResolveInContext(doc, cssSelector, hasFrameLocator, scrollOk, relative) ==
  IF hasFrameLocator
  THEN LET h == LocatorElementHandle(doc, cssSelector, relative)
       IN IF h.threw THEN <<>> ELSE h.value
  ELSE LET h == QuerySelector(doc, cssSelector, relative)
       IN IF h.threw THEN <<>>
          ELSE IF h.value # <<>> /\ ~scrollOk THEN <<>>
          ELSE h.value

\* Playwright's selector engine anchors a selector that starts with a
\* combinator at :scope.
EngineAcceptsRelative == TRUE

\* The call rejects: an exception left get_locate_element.
LocateRejected(frames, sel) ==
  [outcome |-> "rejected", handle |-> <<>>, frames |-> frames, sel |-> sel]

\* What the try block returns (lines 173-194): the handle, or null.
LocateResult(frames, sel, handle) ==
  [outcome |-> IF handle = <<>> THEN "null" ELSE "handle",
   handle |-> handle, frames |-> frames, sel |-> <<sel>>]

\* Lines 168-194: the selector of the element is resolved in the context the
\* frames led to.  The documents inside frames are not part of doc: a
\* selector resolved inside a frame finds nothing.
LocateWithSelector(doc, env, frames, sel) ==
  IF sel.rejected THEN LocateRejected(frames, <<sel>>)
  ELSE LocateResult(frames, sel,
         IF frames = <<>>
         THEN ResolveInContext(doc, sel.value, env.hasFrameLocator, env.scrollOk,
                               EngineAcceptsRelative)
         ELSE <<>>)

\* Lines 159-166: one frameLocator call per iframe of the chain, outermost
\* first; a context without frameLocator makes the call throw.
LocateInFrames(doc, element, include_dynamic_attributes, env, iframes) ==
  IF Len(iframes) > 0 /\ ~env.hasFrameLocator THEN LocateRejected(<<>>, <<>>)
  ELSE LocateWithSelector(doc, env,
         [k \in 1..Len(iframes) |->
            _enhanced_css_selector_for_element(
               iframes[k], include_dynamic_attributes).value],
         _enhanced_css_selector_for_element(element, include_dynamic_attributes))

LocateAfterWalk(doc, element, include_dynamic_attributes, env, walk) ==
  IF walk.threw THEN LocateRejected(<<>>, <<>>)
  ELSE LocateInFrames(doc, element, include_dynamic_attributes, env,
         SelectSeq(Reverse(walk.value), LAMBDA item : item.tagName = "iframe"))

\* get_locate_element.  env gives what the page does: hasFrameLocator (the
\* context has a frameLocator method) and scrollOk (scrollIntoViewIfNeeded
\* succeeds).
get_locate_element(doc, element, include_dynamic_attributes, env) ==
  LocateAfterWalk(doc, element, include_dynamic_attributes, env,
                  ParentChainWalk(element, <<>>))

\* ------------------------------------------------------------ BrowserContext
\* The configuration the constructor builds (lines 33-40), in the fields the
\* model reads.
DefaultConfig ==
  [highlightElements |-> TRUE, includeDynamicAttributes |-> TRUE]

\* updateState's default focusElement (line 50).
DefaultFocusElement == -1

\* An index map of DomService: index -> key of the node that carries it.
IndexMap(map, field) ==
  [i \in IndexValues(map, field) |->
     CHOOSE k \in IndexedKeys(map, field) : map[k][field] = i]

\* DomService.getClickableElements: the script runs in the page and the tree
\* and the two index maps are built from the node map it returns.
ClickableElementsOf(r) ==
  [doc |-> r.doc,
   threw |-> r.threw,
   content |-> [elementTree |-> [rootId |-> r.rootId, map |-> r.map],
                selectorMap |-> IndexMap(r.map, "highlightIndex"),
                elementMap |-> IndexMap(r.map, "elementIndex")]]

getClickableElements(d, highlightElements, focusElement) ==
  ClickableElementsOf(buildDomTreeOverlay(d, highlightElements, focusElement))

\* A call on the context that has just been made.
NewCall(op, pc, element) ==
  [op |-> op, pc |-> pc, element |-> element,
   content |-> <<>>, screenshot |-> <<>>, handle |-> <<>>,
   nativeAttempts |-> 0, jsAttempts |-> 0, fillAttempts |-> 0,
   failed |-> {}, cachedAtFault |-> <<>>,
   outcome |-> "pending", value |-> <<>>]
\* value: what the call gives back, the message of the Error it rejects with
\* for a click or a fill.

\* A catch block that always rethrows.
rethrowAlways(cached) == [outcome |-> "rejected", value |-> <<>>]

\* The catch block of updateState (lines 75-81).
updateStateCatch(cached) ==
  IF cached # <<>>
  THEN [outcome |-> "returned", value |-> cached]
  ELSE [outcome |-> "rejected", value |-> <<>>]

\* The BrowserState assembled at lines 63-72 (url, title and the scroll
\* offsets are values of the page the model does not follow; the screenshot
\* is the document it shows).
BrowserStateOf(c) ==
  [elementTree |-> c.content[1].elementTree,
   selectorMap |-> c.content[1].selectorMap,
   elementMap |-> c.content[1].elementMap,
   screenshot |-> c.screenshot[1]]

\* A step threw: the catch block decides what the call gives back.
updateStateCaught(d, cached, c, r) ==
  [doc |-> d, currentState |-> cached,
   call |-> [c EXCEPT !.pc = "done", !.failed = {c.pc},
                      !.cachedAtFault = cached,
                      !.outcome = r.outcome, !.value = r.value]]

\* The tree and the maps are cached as soon as the traversal returns.
cachedDuringTraversal(cached, c, g) ==
  [doc |-> g.doc,
   currentState |-> <<[elementTree |-> g.content.elementTree,
                       selectorMap |-> g.content.selectorMap,
                       elementMap |-> g.content.elementMap,
                       screenshot |-> g.doc]>>,
   call |-> [c EXCEPT !.pc = "takeScreenshot", !.content = <<g.content>>]]

\* Lines 54-58: the traversal ran and its result is kept in content.
updateStateTraversed(cached, c, g) ==
  IF g.threw THEN updateStateCaught(g.doc, cached, c, updateStateCatch(cached))
  ELSE [doc |-> g.doc, currentState |-> cached,
        call |-> [c EXCEPT !.pc = "takeScreenshot", !.content = <<g.content>>]]

\* Lines 63-74: the new snapshot is stored and returned.
updateStateStored(d, c, state) ==
  [doc |-> d, currentState |-> <<state>>,
   call |-> [c EXCEPT !.pc = "done", !.outcome = "returned", !.value = <<state>>]]

\* One awaited step of updateState (lines 51-74); ok tells whether the page
\* carried it out.  The result gives the document, the cache and the call.
updateStateStep(d, cached, c, ok) ==
  IF ~ok THEN updateStateCaught(d, cached, c, updateStateCatch(cached))
  ELSE IF c.pc = "removeHighlights"
  THEN [doc |-> removeExistingContainer(d), currentState |-> cached,
        call |-> [c EXCEPT !.pc = "getClickableElements"]]
  ELSE IF c.pc = "getClickableElements"
  THEN updateStateTraversed(cached, c,
         getClickableElements(d, DefaultConfig.highlightElements,
                              DefaultFocusElement))
  ELSE IF c.pc = "takeScreenshot"
  THEN [doc |-> d, currentState |-> cached,
        call |-> [c EXCEPT !.pc = "getScrollInfo", !.screenshot = <<d>>]]
  ELSE IF c.pc = "getScrollInfo"
  THEN [doc |-> d, currentState |-> cached, call |-> [c EXCEPT !.pc = "title"]]
  ELSE updateStateStored(d, c, BrowserStateOf(c))

\* The text of what a step threw, as a template literal prints it: the Error
\* of lines 325 and 343 for a null handle, a TypeError that left
\* get_locate_element, an error of the page in click, evaluate or fill.
FaultText(fault) ==
  IF fault = "null" THEN <<"Error: ", "Element not found">>
  ELSE IF fault = "rejected" THEN <<"TypeError: ", "not a function">>
  ELSE <<"Error: ", "page fault">>

\* The message of the Error the outer catch throws: line 360 for a click,
\* lines 331-333 for a fill.
actionError(c, fault) ==
  IF c.op = "click"
  THEN <<"Failed to click element: ">> \o FaultText(fault)
  ELSE <<"Failed to input text into index ">>
       \o IndexToString(c.element[1].highlightIndex)

\* The handle is kept, or the outer catch rethrows.
handleOrThrow(c, r, next) ==
  IF r.outcome = "handle"
  THEN [c EXCEPT !.pc = next, !.handle = r.handle]
  ELSE [c EXCEPT !.pc = "done", !.failed = {"locate"}, !.outcome = "rejected",
                 !.value = <<actionError(c, r.outcome)>>]

\* Lines 341-344 of _click_element_node and 324-327 of
\* _input_text_element_node: the element is located; a null handle and a
\* rejected locate both end in the outer catch, which rethrows.
locateStep(d, c, env, next) ==
  handleOrThrow(c, get_locate_element(d, c.element[1],
                                      DefaultConfig.includeDynamicAttributes, env), next)

\* A fallback whose failure is dropped.
evaluateFailureDropped(c, ok) ==
  [c EXCEPT !.pc = "done", !.jsAttempts = @ + 1,
            !.failed = IF ok THEN @ ELSE @ \cup {"evaluate"},
            !.outcome = "resolved"]

\* element_handle.click inside perform_click (lines 345-357): a failure leads
\* to the fallback.
clickNative(c, ok) ==
  IF ok
  THEN [c EXCEPT !.pc = "done", !.nativeAttempts = @ + 1, !.outcome = "resolved"]
  ELSE [c EXCEPT !.pc = "evaluate", !.nativeAttempts = @ + 1,
                 !.failed = @ \cup {"click"}]

\* The fallback page.evaluate of lines 350-351: its failure leaves
\* perform_click and is rethrown by the outer catch (lines 358-361).
clickEvaluate(c, ok) ==
  [c EXCEPT !.pc = "done", !.jsAttempts = @ + 1,
            !.failed = IF ok THEN @ ELSE @ \cup {"evaluate"},
            !.outcome = IF ok THEN "resolved" ELSE "rejected",
            !.value = IF ok THEN @ ELSE <<actionError(c, "page")>>]

\* element_handle.fill (line 328) and the catch of lines 329-334.
fillStep(c, ok) ==
  [c EXCEPT !.pc = "done", !.fillAttempts = @ + 1,
            !.failed = IF ok THEN @ ELSE @ \cup {"fill"},
            !.outcome = IF ok THEN "resolved" ELSE "rejected",
            !.value = IF ok THEN @ ELSE <<actionError(c, "page")>>]

\* ------------------------------------------------------------ the state
VARIABLES
  doc,    \* the live document: element records, body first
  snap,   \* <<>> or <<r>>: the last value returned by buildDomTreeOverlay
  loc,    \* <<>> or <<r>>: the last get_locate_element call and its result
  currentState,  \* <<>> (null) or <<s>>: the snapshot the context has cached
  call,   \* <<>> or <<c>>: the call on the context that is under way
  other,  \* <<>> or <<c>>: a call a second caller has under way on the context
  fn      \* <<>> or <<r>>: a function of the library applied to an input

vars == <<doc, snap, loc, currentState, call, other, fn>>

\* scrollOk is only looked at when the context has no frameLocator.
EnvChoices ==
  {e \in [hasFrameLocator : BOOLEAN, scrollOk : BOOLEAN] :
     e.hasFrameLocator => e.scrollOk}

\* Descriptors that did not come out of a snapshot.
BaseDescriptor ==
  [tagName |-> "div", xpath |-> Str(<<"/", "html", "/", "body", "/", "div">>),
   attributes |-> Obj(<<>>), isVisible |-> TRUE, highlightIndex |-> 0,
   parent |-> Null]

\* Two iframes, one inside the other, as ancestors of a descriptor.
OuterFrame ==
  [BaseDescriptor EXCEPT
     !.tagName = "iframe",
     !.xpath = Str(<<"/", "html", "/", "body", "/", "iframe">>),
     !.attributes = Obj(<<[name |-> "name", value |-> Str(<<"o">>)]>>),
     !.highlightIndex = NullIdx]

InnerFrame ==
  [OuterFrame EXCEPT
     !.attributes = Obj(<<[name |-> "name", value |-> Str(<<"i">>)]>>),
     !.parent = Obj(<<OuterFrame>>)]

\* The descriptors a caller builds itself: fields missing or of the wrong
\* type, and an element two iframes deep.
CallerDescriptors ==
  { [BaseDescriptor EXCEPT !.xpath = Undefined],
    [BaseDescriptor EXCEPT !.attributes = Undefined, !.tagName = ""],
    [BaseDescriptor EXCEPT
       !.attributes = Obj(<<[name |-> "class", value |-> Num(<<"5">>)]>>),
       !.highlightIndex = NullIdx],
    [BaseDescriptor EXCEPT !.parent = Undefined],
    [BaseDescriptor EXCEPT !.parent = Obj(<<InnerFrame>>)] }

Init ==
  /\ doc = <<BodyElement>>
  /\ snap = <<>>
  /\ loc = <<>>
  /\ currentState = <<>>
  /\ call = <<>>
  /\ other = <<>>
  /\ fn = <<>>

\* The page adds an element as the last child of body or of one of its elements.
PageAddElement ==
  /\ loc = <<>>
  /\ Cardinality(PageElements(doc)) < MaxElems
  /\ \E kind \in ElementKinds, p \in {BodyIndex} \cup PageElements(doc) :
       doc' = AppendChild(doc, p, kind)
  /\ UNCHANGED <<snap, loc, currentState, call, other, fn>>

\* The arguments the script is evaluated with: focusHighlightIndex is only
\* looked at when boxes are drawn, and then names the first index.
ScriptArgs ==
  { [doHighlightElements |-> FALSE, focusHighlightIndex |-> NullIdx],
    [doHighlightElements |-> TRUE, focusHighlightIndex |-> 0] }

\* One evaluation of the script in the page.  rerun records that the run
\* follows a run with the same arguments and that the page's own elements are
\* as that run left them (the overlay may have been removed in between).
\* threw tells that an exception left the script: the evaluation rejects, and
\* map is what nodeMap held at that point.
BuildDomTreeOverlay ==
  /\ loc = <<>>
  /\ \E args \in ScriptArgs :
       \E r \in {buildDomTreeOverlay(doc, args.doHighlightElements,
                                      args.focusHighlightIndex)} :
         /\ doc' = r.doc
         /\ snap' = <<[args |-> args,
                       rootId |-> r.rootId,
                       map |-> r.map,
                       threw |-> r.threw,
                       docAfter |-> r.doc,
                       rerun |-> /\ snap # <<>>
                                 /\ snap[1].args = args
                                 /\ removeExistingContainer(snap[1].docAfter)
                                      = removeExistingContainer(doc)]>>
  /\ UNCHANGED <<loc, currentState, call, other, fn>>

\* BrowserContext.removeHighlights (lines 105-114).
RemoveHighlights ==
  /\ loc = <<>>
  /\ doc' = removeExistingContainer(doc)
  /\ doc' # doc
  /\ UNCHANGED <<snap, loc, currentState, call, other, fn>>

\* The descriptors a caller can pass: those of the last snapshot, or ones it
\* built itself.
DescriptorsFrom(source) ==
  IF source = "snapshot"
  THEN IF snap = <<>> THEN {}
       ELSE {DescriptorOf(snap[1].map, k) : k \in ElementKeys(snap[1].map)}
  ELSE CallerDescriptors

\* One get_locate_element call.  fresh records that the document is as the
\* last run of the script left it.
GetLocateElement ==
  /\ loc = <<>>
  /\ \E include \in BOOLEAN, env \in EnvChoices, source \in {"snapshot", "caller"} :
       \E element \in DescriptorsFrom(source) :
         loc' = <<[element |-> element,
                   source |-> source,
                   include |-> include,
                   fresh |-> (snap # <<>> /\ doc = snap[1].docAfter),
                   result |-> get_locate_element(doc, element, include, env)]>>
  /\ UNCHANGED <<doc, snap, currentState, call, other, fn>>

\* The caller takes the result of the call.
LocateReturn ==
  /\ loc # <<>>
  /\ loc' = <<>>
  /\ UNCHANGED <<doc, snap, currentState, call, other, fn>>

Next ==
  \/ PageAddElement
  \/ BuildDomTreeOverlay
  \/ RemoveHighlights
  \/ GetLocateElement
  \/ LocateReturn

Spec == Init /\ [][Next]_vars

\* ------------------------------ pages with an element whose reads throw
\* The page adds a form whose tagName is shadowed.
PageAddThrowingElement ==
  /\ loc = <<>>
  /\ Cardinality(PageElements(doc)) < MaxElems
  /\ \E kind \in ThrowingKinds, p \in {BodyIndex} \cup PageElements(doc) :
       doc' = AppendChild(doc, p, kind)
  /\ UNCHANGED <<snap, loc, currentState, call, other, fn>>

NextFault == PageAddElement \/ PageAddThrowingElement \/ BuildDomTreeOverlay

SpecFault == Init /\ [][NextFault]_vars

\* ------------------------------------------------------------ calls on the context
UpdateStateSteps ==
  {"removeHighlights", "getClickableElements", "takeScreenshot",
   "getScrollInfo", "title"}

\* The descriptors handed to the action layer: those the cached selectorMap
\* holds, one the caller built, and one without a parent field.
ActionTargets ==
  (IF currentState = <<>> THEN {}
   ELSE {DescriptorOf(currentState[1].elementTree.map, currentState[1].selectorMap[i]) :
           i \in DOMAIN currentState[1].selectorMap})
  \cup {BaseDescriptor, [BaseDescriptor EXCEPT !.parent = Undefined]}

\* updateState is called.
UpdateStateCall ==
  /\ call = <<>>
  /\ call' = <<NewCall("updateState", "removeHighlights", <<>>)>>
  /\ UNCHANGED <<doc, snap, loc, currentState, other, fn>>

\* getState (lines 43-48): the cached snapshot if there is one, else updateState.
GetStateCall ==
  /\ call = <<>>
  /\ call' = IF currentState # <<>>
             THEN <<[NewCall("getState", "done", <<>>) EXCEPT
                       !.outcome = "returned", !.value = currentState]>>
             ELSE <<NewCall("getState", "removeHighlights", <<>>)>>
  /\ UNCHANGED <<doc, snap, loc, currentState, other, fn>>

\* The next awaited step of a running updateState.
UpdateStateStep ==
  /\ call # <<>>
  /\ call[1].pc \in UpdateStateSteps
  /\ \E ok \in BOOLEAN :
       \E r \in {updateStateStep(doc, currentState, call[1], ok)} :
         /\ doc' = r.doc
         /\ currentState' = r.currentState
         /\ call' = <<r.call>>
  /\ UNCHANGED <<snap, loc, other, fn>>

ClickCall ==
  /\ call = <<>>
  /\ \E element \in ActionTargets :
       call' = <<NewCall("click", "locate", <<element>>)>>
  /\ UNCHANGED <<doc, snap, loc, currentState, other, fn>>

FillCall ==
  /\ call = <<>>
  /\ \E element \in ActionTargets :
       call' = <<NewCall("fill", "locate", <<element>>)>>
  /\ UNCHANGED <<doc, snap, loc, currentState, other, fn>>

LocateStep ==
  /\ call # <<>>
  /\ call[1].pc = "locate"
  /\ \E env \in EnvChoices :
       call' = <<locateStep(doc, call[1], env,
                            IF call[1].op = "click" THEN "click" ELSE "fill")>>
  /\ UNCHANGED <<doc, snap, loc, currentState, other, fn>>

ClickNative ==
  /\ call # <<>>
  /\ call[1].pc = "click"
  /\ \E ok \in BOOLEAN : call' = <<clickNative(call[1], ok)>>
  /\ UNCHANGED <<doc, snap, loc, currentState, other, fn>>

ClickEvaluate ==
  /\ call # <<>>
  /\ call[1].pc = "evaluate"
  /\ \E ok \in BOOLEAN : call' = <<clickEvaluate(call[1], ok)>>
  /\ UNCHANGED <<doc, snap, loc, currentState, other, fn>>

FillStep ==
  /\ call # <<>>
  /\ call[1].pc = "fill"
  /\ \E ok \in BOOLEAN : call' = <<fillStep(call[1], ok)>>
  /\ UNCHANGED <<doc, snap, loc, currentState, other, fn>>

\* The caller takes the outcome of the call.
CallReturn ==
  /\ call # <<>>
  /\ call[1].pc = "done"
  /\ call' = <<>>
  /\ UNCHANGED <<doc, snap, loc, currentState, other, fn>>

NextCtx ==
  \/ PageAddElement
  \/ UpdateStateCall
  \/ GetStateCall
  \/ UpdateStateStep
  \/ ClickCall
  \/ FillCall
  \/ LocateStep
  \/ ClickNative
  \/ ClickEvaluate
  \/ FillStep
  \/ CallReturn

SpecCtx == Init /\ [][NextCtx]_vars

\* ------------------------------------------- two callers on one context
\* Nothing in BrowserContext keeps a second call from starting while a first
\* one is suspended at an await: the second caller makes the same calls.
SecondUpdateStateCall ==
  /\ other = <<>>
  /\ other' = <<NewCall("updateState", "removeHighlights", <<>>)>>
  /\ UNCHANGED <<doc, snap, loc, currentState, call, fn>>

SecondGetStateCall ==
  /\ other = <<>>
  /\ other' = IF currentState # <<>>
              THEN <<[NewCall("getState", "done", <<>>) EXCEPT
                        !.outcome = "returned", !.value = currentState]>>
              ELSE <<NewCall("getState", "removeHighlights", <<>>)>>
  /\ UNCHANGED <<doc, snap, loc, currentState, call, fn>>

SecondUpdateStateStep ==
  /\ other # <<>>
  /\ other[1].pc \in UpdateStateSteps
  /\ \E ok \in BOOLEAN :
       \E r \in {updateStateStep(doc, currentState, other[1], ok)} :
         /\ doc' = r.doc
         /\ currentState' = r.currentState
         /\ other' = <<r.call>>
  /\ UNCHANGED <<snap, loc, call, fn>>

SecondCallReturn ==
  /\ other # <<>>
  /\ other[1].pc = "done"
  /\ other' = <<>>
  /\ UNCHANGED <<doc, snap, loc, currentState, call, fn>>

NextConc ==
  \/ UpdateStateCall
  \/ GetStateCall
  \/ UpdateStateStep
  \/ CallReturn
  \/ SecondUpdateStateCall
  \/ SecondGetStateCall
  \/ SecondUpdateStateStep
  \/ SecondCallReturn

SpecConc == Init /\ [][NextConc]_vars

\* ---------------------------------------- functions applied to chosen inputs
MaxValueLen == 3
MaxProbeAttrs == 2

\* The pieces attribute values are made of: a letter, a digit, a space, a
\* tab, a double quote and a backslash.
ProbeChars == {"x", "1", " ", "\t", "\"", "\\"}

ProbeValues == UNION { [1..n -> ProbeChars] : n \in 1..MaxValueLen }

\* A descriptor of a div under body with one attribute.
ProbeDescriptor(name, value) ==
  [BaseDescriptor EXCEPT !.attributes = Obj(<<[name |-> name, value |-> Str(value)]>>)]

ProbeAttrs ==
  { Attr("onclick", <<"x", "(", ")">>), Attr("onmouseout", <<>>),
    Attr("role", <<"button">>), Attr("role", <<"x">>), Attr("role", <<>>),
    Attr("tabindex", <<>>), Attr("tabindex", <<"-", "1">>), Attr("tabindex", <<"0">>) }

\* Elements with up to MaxProbeAttrs attributes of different names.
ProbeElements ==
  { [tag |-> t, attrs |-> as, vis |-> TRUE, text |-> <<>>, throws |-> FALSE] :
      t \in {"div", "span", "summary"},
      as \in { q \in UNION { [1..n -> ProbeAttrs] : n \in 0..MaxProbeAttrs } :
                \A i, k \in 1..Len(q) : i # k => q[i].name # q[k].name } }

\* _enhanced_css_selector_for_element applied to a descriptor.
SynthesizeSelector ==
  /\ fn = <<>>
  /\ \E name \in {"title", "class"}, value \in ProbeValues, include \in BOOLEAN :
       fn' = <<[op |-> "_enhanced_css_selector_for_element",
                element |-> <<ProbeDescriptor(name, value)>>,
                include |-> include,
                result |-> <<_enhanced_css_selector_for_element(
                                ProbeDescriptor(name, value), include)>>]>>
  /\ UNCHANGED <<doc, snap, loc, currentState, call, other>>

\* isElementInteractive applied to an element under body.
ClassifyElement ==
  /\ fn = <<>>
  /\ \E el \in ProbeElements :
       fn' = <<[op |-> "isElementInteractive",
                element |-> <<el>>,
                include |-> FALSE,
                result |-> <<isElementInteractive(
                                AppendChild(<<BodyElement>>, BodyIndex, el), 2)>>]>>
  /\ UNCHANGED <<doc, snap, loc, currentState, call, other>>

FnReturn ==
  /\ fn # <<>>
  /\ fn' = <<>>
  /\ UNCHANGED <<doc, snap, loc, currentState, call, other>>

NextFn == SynthesizeSelector \/ ClassifyElement \/ FnReturn

SpecFn == Init /\ [][NextFn]_vars

\* ------------------------------------------------------------ properties
Dense(map, field) ==
  /\ IndexValues(map, field) = 0..(Cardinality(IndexedKeys(map, field)) - 1)
  /\ Cardinality(IndexValues(map, field)) = Cardinality(IndexedKeys(map, field))

\* The last call was made on a descriptor of the last snapshot while the
\* document was as that run left it.
FreshLocate ==
  /\ loc # <<>>
  /\ loc[1].source = "snapshot"
  /\ loc[1].fresh

\* C1: round-trip locate.  On a freshly built snapshot of a document that has
\* not changed since, get_locate_element returns a handle for every element
\* node whose isVisible is true, whatever the shape of its xpath.
C1_RoundTripLocate ==
  (FreshLocate /\ loc[1].element.isVisible) => loc[1].result.outcome = "handle"

\* C2: index density.  In the node map of one buildDomTreeOverlay call the
\* highlightIndex values are exactly 0..k-1 and the elementIndex values are
\* exactly 0..m-1, each without gap or duplicate.
C2_IndexDensity ==
  snap # <<>> =>
    /\ Dense(snap[1].map, "highlightIndex")
    /\ Dense(snap[1].map, "elementIndex")

\* A snapshot with two highlighted nodes and a node without index.
C2_Witness ==
  /\ snap # <<>>
  /\ Cardinality(IndexedKeys(snap[1].map, "highlightIndex")) >= 2
  /\ Cardinality(IndexedKeys(snap[1].map, "elementIndex")) >= 2
  /\ \E k \in ElementKeys(snap[1].map) :
       /\ snap[1].map[k].highlightIndex = NullIdx
       /\ snap[1].map[k].tagName # "body"

\* C3: subset invariant.  Every node with a highlightIndex also has an
\* elementIndex, so there are at least as many element-indexed nodes as
\* highlight-indexed ones.
C3_SubsetInvariant ==
  snap # <<>> =>
    /\ \A k \in ElementKeys(snap[1].map) :
         snap[1].map[k].highlightIndex # NullIdx =>
           snap[1].map[k].elementIndex # NullIdx
    /\ Cardinality(IndexedKeys(snap[1].map, "elementIndex"))
         >= Cardinality(IndexedKeys(snap[1].map, "highlightIndex"))

\* A snapshot in which some node is highlighted.
C3_Witness ==
  /\ snap # <<>>
  /\ IndexedKeys(snap[1].map, "highlightIndex") # {}

\* An element that carries text of its own and is not visible-and-interactive.
TextOnlyNode(n) ==
  /\ n.type = "ELEMENT_NODE"
  /\ n.text # <<>>
  /\ n.tagName # "body"
  /\ ~(n.isVisible /\ n.isInteractive)

\* C4: an element that is not visible-and-interactive but carries text gets an
\* elementIndex and no highlightIndex; with one such h1 and one visible button
\* with onclick under body, one node has a highlightIndex and at least two
\* have an elementIndex.
C4_TextElementIndexed ==
  snap # <<>> =>
    \A k \in ElementKeys(snap[1].map) :
      TextOnlyNode(snap[1].map[k]) =>
        /\ snap[1].map[k].elementIndex # NullIdx
        /\ snap[1].map[k].highlightIndex = NullIdx

\* Two node maps agree on the xpath and on both indices of every node.
SameNodes(m1, m2) ==
  /\ DOMAIN m1 = DOMAIN m2
  /\ \A k \in ElementKeys(m1) :
       /\ m2[k].type = "ELEMENT_NODE"
       /\ m2[k].xpath = m1[k].xpath
       /\ m2[k].highlightIndex = m1[k].highlightIndex
       /\ m2[k].elementIndex = m1[k].elementIndex

\* C5: determinism.  A run of buildDomTreeOverlay that follows a run with the
\* same options, the page's own elements unchanged in between, yields the same
\* xpath, highlightIndex and elementIndex for every node.
C5_Determinism ==
  [][(snap' # snap /\ snap' # <<>> /\ snap'[1].rerun)
       => (snap # <<>> /\ SameNodes(snap[1].map, snap'[1].map))]_vars

\* A second run with boxes drawn over a document with a highlighted node.
C5_Witness ==
  /\ snap # <<>>
  /\ snap[1].rerun
  /\ snap[1].args.doHighlightElements
  /\ IndexedKeys(snap[1].map, "highlightIndex") # {}

\* What makes the synthesis throw: an xpath that is not a string, attributes
\* that are not an object, or a class value that is not a string.
SynthesisFaults(element, include) ==
  \/ element.xpath.t # "string"
  \/ element.attributes.t # "object"
  \/ /\ include
     /\ \E k \in 1..Len(element.attributes.v) :
          /\ element.attributes.v[k].name = "class"
          /\ element.attributes.v[k].value.t = "number"

\* C6: _enhanced_css_selector_for_element never throws, and when an exception
\* occurs inside the synthesis it resolves to tagName[highlight_index='<h>'].
C6_SelectorNeverThrows ==
  (loc # <<>> /\ loc[1].result.sel # <<>>) =>
    LET e == loc[1].element
        r == loc[1].result.sel[1]
    IN /\ ~r.rejected
       /\ r.caught <=> SynthesisFaults(e, loc[1].include)
       /\ r.caught =>
            r.value = <<IF e.tagName = "" THEN "*" ELSE e.tagName,
                        "[", "highlight_index", "=", "'">>
                      \o IndexToString(e.highlightIndex) \o <<"'", "]">>

\* The synthesis threw on a descriptor without xpath and the fallback came out.
C6_Witness ==
  /\ loc # <<>>
  /\ loc[1].result.sel # <<>>
  /\ loc[1].element.xpath.t = "undefined"
  /\ loc[1].result.sel[1].caught

\* C7: selector validity.  For every descriptor produced by
\* buildDomTreeOverlay the string _enhanced_css_selector_for_element returns is
\* a syntactically usable CSS selector.
C7_SelectorValidity ==
  (loc # <<>> /\ loc[1].source = "snapshot" /\ loc[1].result.sel # <<>>) =>
    ParseSelector(loc[1].result.sel[1].value, EngineAcceptsRelative).ok

\* C10: get_locate_element never rejects; every relocation miss, a malformed
\* parent chain included, is reported as null.
C10_LocateNeverRejects ==
  loc # <<>> => loc[1].result.outcome # "rejected"

\* C8: interaction state machine.  In _click_element_node the native click is
\* attempted exactly once on the located handle, the programmatic click at
\* most once and only after the native click failed, and the call rejects if
\* both fail or the element could not be located; in _input_text_element_node
\* fill is attempted at most once, without fallback, and any failure rejects.
C8_InteractionStateMachine ==
  (call # <<>> /\ call[1].op \in {"click", "fill"}) =>
    LET c == call[1]
        located == c.handle # <<>>
    IN /\ c.nativeAttempts <= 1 /\ c.jsAttempts <= 1 /\ c.fillAttempts <= 1
       /\ c.nativeAttempts + c.jsAttempts + c.fillAttempts > 0 => located
       /\ c.jsAttempts = 1 => (c.nativeAttempts = 1 /\ "click" \in c.failed)
       /\ c.op = "click" => c.fillAttempts = 0
       /\ c.op = "fill" => (c.nativeAttempts = 0 /\ c.jsAttempts = 0)
       /\ (c.pc = "done" /\ c.op = "click") =>
            /\ located => c.nativeAttempts = 1
            /\ "click" \in c.failed => c.jsAttempts = 1
            /\ c.outcome = "rejected" <=>
                 (~located \/ {"click", "evaluate"} \subseteq c.failed)
            /\ c.outcome = "resolved" <=>
                 (located /\ ~({"click", "evaluate"} \subseteq c.failed))
       /\ (c.pc = "done" /\ c.op = "fill") =>
            /\ located => c.fillAttempts = 1
            /\ c.outcome = "rejected" <=> (~located \/ "fill" \in c.failed)
            /\ c.outcome = "resolved" <=> (located /\ "fill" \notin c.failed)

\* A click whose native attempt and fallback both failed on a located handle.
C8_Witness ==
  /\ call # <<>>
  /\ call[1].op = "click"
  /\ call[1].pc = "done"
  /\ call[1].handle # <<>>
  /\ call[1].failed = {"click", "evaluate"}
  /\ call[1].outcome = "rejected"

\* C9: snapshot-level fault handling.  When a step of updateState throws and
\* a snapshot is cached, updateState returns the cached snapshot and leaves
\* currentState as it was; when none is cached it rejects and currentState
\* stays null.
C9_UpdateStateFaults ==
  (/\ call # <<>>
   /\ call[1].op \in {"updateState", "getState"}
   /\ call[1].pc = "done"
   /\ call[1].failed # {}) =>
    LET c == call[1]
    IN /\ c.failed \subseteq UpdateStateSteps
       /\ currentState = c.cachedAtFault
       /\ IF c.cachedAtFault # <<>>
          THEN c.outcome = "returned" /\ c.value = c.cachedAtFault
          ELSE c.outcome = "rejected"

\* The title step threw after a traversal whose result differs from the cached
\* snapshot: the cached one is returned.
C9_Witness ==
  /\ call # <<>>
  /\ call[1].op = "updateState"
  /\ call[1].pc = "done"
  /\ call[1].failed = {"title"}
  /\ call[1].cachedAtFault # <<>>
  /\ call[1].content[1].elementTree # call[1].cachedAtFault[1].elementTree
  /\ call[1].outcome = "returned"

\* C11: an element node of the snapshot has a non-null highlightIndex exactly
\* when the traversal recorded it as both visible and interactive.
C11_HighlightIffVisibleInteractive ==
  snap # <<>> =>
    \A k \in ElementKeys(snap[1].map) :
      (snap[1].map[k].highlightIndex # NullIdx)
        <=> (snap[1].map[k].isVisible /\ snap[1].map[k].isInteractive)

\* A snapshot holding an indexed node, an interactive node that is not visible
\* and a visible node that is not interactive.
C11_Witness ==
  /\ snap # <<>>
  /\ \E k \in ElementKeys(snap[1].map) : snap[1].map[k].highlightIndex # NullIdx
  /\ \E k \in ElementKeys(snap[1].map) :
       snap[1].map[k].isInteractive /\ ~snap[1].map[k].isVisible
  /\ \E k \in ElementKeys(snap[1].map) :
       snap[1].map[k].isVisible /\ ~snap[1].map[k].isInteractive

RECURSIVE SnapshotOrderFrom(_, _)
RECURSIVE SnapshotOrderList(_, _)
SnapshotOrderList(map, ks) ==
  IF Len(ks) = 0 THEN <<>>
  ELSE SnapshotOrderFrom(map, ks[1]) \o SnapshotOrderList(map, Tail(ks))
\* The element nodes below k in the order of the snapshot's children lists:
\* a node before its descendants, an earlier sibling's subtree before a later's.
SnapshotOrderFrom(map, k) ==
  IF map[k].type = "ELEMENT_NODE"
  THEN <<k>> \o SnapshotOrderList(map, map[k].children)
  ELSE <<>>

\* The nodes at positions i < j of an order carry increasing values of an index.
IndexFollows(map, order, field) ==
  \A i, j \in 1..Len(order) :
    (/\ map[order[i]][field] # NullIdx
     /\ map[order[j]][field] # NullIdx)
      => ((map[order[i]][field] < map[order[j]][field]) <=> (i < j))

\* The i-th node of an order describes the i-th element of the document.
MirrorsDocument(d, map, order) ==
  LET elems == PreOrderFrom(d, BodyIndex)
  IN /\ Len(order) = Len(elems)
     /\ \A i \in 1..Len(order) :
          /\ map[order[i]].tagName = d[elems[i]].tag
          /\ map[order[i]].xpath = getXPath(d, elems[i])

\* C12: highlightIndex and elementIndex both follow the pre-order traversal
\* from body: of two indexed nodes the one visited first has the smaller index,
\* and the order of the visit is the document order of the elements.
C12_IndexOrderIsDocumentOrder ==
  snap # <<>> =>
    /\ MirrorsDocument(snap[1].docAfter, snap[1].map,
                       SnapshotOrderFrom(snap[1].map, snap[1].rootId))
    /\ IndexFollows(snap[1].map, SnapshotOrderFrom(snap[1].map, snap[1].rootId),
                    "highlightIndex")
    /\ IndexFollows(snap[1].map, SnapshotOrderFrom(snap[1].map, snap[1].rootId),
                    "elementIndex")

\* A snapshot with two indexed elements, one nested in the other.
C12_Witness ==
  /\ snap # <<>>
  /\ \E k, c \in ElementKeys(snap[1].map) :
       /\ snap[1].map[k].highlightIndex = 0
       /\ snap[1].map[c].highlightIndex = 1
       /\ snap[1].map[c].elementIndex = 1
       /\ \E i \in 1..Len(snap[1].map[k].children) : snap[1].map[k].children[i] = c

RECURSIVE FramesAbove(_)
\* The iframe ancestors of a descriptor, the outermost one first.
FramesAbove(d) ==
  IF d.parent.t = "object"
  THEN FramesAbove(d.parent.v[1])
       \o (IF d.parent.v[1].tagName = "iframe" THEN <<d.parent.v[1]>> ELSE <<>>)
  ELSE <<>>

LastAttrs(css) ==
  IF ParseSelector(css, TRUE).ok
  THEN ParseSelector(css, TRUE).parts[Len(ParseSelector(css, TRUE).parts)].attrs
  ELSE <<>>

\* C14: for an allowlisted attribute whose value contains a double quote,
\* backslashes or not, the selector ends in the contains form of the
\* attribute with every quote escaped and the quoted string closed: the
\* selector parses, and its one attribute filter asks for the value itself
\* (whitespace collapsed and trimmed).
C14_QuoteEscaping ==
  (/\ fn # <<>>
   /\ fn[1].op = "_enhanced_css_selector_for_element"
   /\ fn[1].element[1].attributes.v[1].name = "title"
   /\ Contains(fn[1].element[1].attributes.v[1].value.v, <<"\"">>))
    => /\ StartsWith(fn[1].result[1].value, <<"div", "[", "title", "*", "=", "\"">>)
       /\ LastAttrs(fn[1].result[1].value) =
            <<[name |-> "title", op |-> <<"*", "=">>,
               val |-> Trim(CollapseWhitespace(
                         fn[1].element[1].attributes.v[1].value.v))]>>

RECURSIVE DotTokens(_)
\* ".token" for each token of a list that is a valid class name.
DotTokens(toks) ==
  IF Len(toks) = 0 THEN <<>>
  ELSE (IF ValidClassName(toks[1]) THEN <<".">> \o toks[1] ELSE <<>>)
       \o DotTokens(Tail(toks))

\* C15: for a descriptor with a class attribute, and for both values of
\* includeDynamicAttributes, the selector carries ".token" for every
\* whitespace-separated token of the class value that is a valid class name,
\* and no other class filter.
C15_ClassFilters ==
  (/\ fn # <<>>
   /\ fn[1].op = "_enhanced_css_selector_for_element"
   /\ fn[1].element[1].attributes.v[1].name = "class")
    => fn[1].result[1].value =
         <<"div">> \o DotTokens(Split(fn[1].element[1].attributes.v[1].value.v,
                                      {" ", "\n", "\t", "\r"}))

\* The texts a fault of a click or fill call can have, by the steps that failed.
CausesOf(c) ==
  IF c.failed \cap {"evaluate", "fill"} # {} THEN {FaultText("page")}
  ELSE {FaultText("null"), FaultText("rejected")}

\* C16: the error a click or fill call rejects with names the highlightIndex
\* of the descriptor and the cause the call failed for.
C16_ErrorNamesIndexAndCause ==
  (/\ call # <<>>
   /\ call[1].op \in {"click", "fill"}
   /\ call[1].outcome = "rejected") =>
    /\ Contains(call[1].value[1], IndexToString(call[1].element[1].highlightIndex))
    /\ \E cause \in CausesOf(call[1]) : Contains(call[1].value[1], cause)

\* A snapshot whose two maps index the nodes of its own tree.
OneTraversal(s) ==
  /\ s.elementTree.rootId \in DOMAIN s.elementTree.map
  /\ s.selectorMap = IndexMap(s.elementTree.map, "highlightIndex")
  /\ s.elementMap = IndexMap(s.elementTree.map, "elementIndex")

\* C17: the state the context holds is null or one complete snapshot whose
\* tree and maps come from a single traversal, and it changes only when an
\* updateState call has passed its last step: then tree, maps and screenshot
\* are all replaced by those of that call.
C17_AtomicReplacement ==
  /\ [](currentState # <<>> => OneTraversal(currentState[1]))
  /\ [][currentState' # currentState =>
         /\ call # <<>>
         /\ call[1].pc = "title"
         /\ currentState' =
              <<[elementTree |-> call[1].content[1].elementTree,
                 selectorMap |-> call[1].content[1].selectorMap,
                 elementMap |-> call[1].content[1].elementMap,
                 screenshot |-> call[1].screenshot[1]]>>
         /\ call'[1].outcome = "returned"
         /\ call'[1].value = currentState']_vars

\* An updateState call at its last step, holding a traversal whose tree and
\* maps all differ from those of the cached snapshot.
C17_Witness ==
  /\ call # <<>>
  /\ call[1].op = "updateState"
  /\ call[1].pc = "title"
  /\ currentState # <<>>
  /\ call[1].content[1].elementTree # currentState[1].elementTree
  /\ call[1].content[1].selectorMap # currentState[1].selectorMap
  /\ call[1].content[1].elementMap # currentState[1].elementMap

\* C18: whatever the interleaving of the calls made on one BrowserContext, no
\* two traversals are in flight at once: a call waits for getClickableElements
\* only when no other call does.
C18_NoOverlappingTraversals ==
  ~(/\ call # <<>>
    /\ other # <<>>
    /\ call[1].pc = "getClickableElements"
    /\ other[1].pc = "getClickableElements")

\* C19: when reading one element throws during the traversal, the run is not
\* aborted: it returns, its nodes mirror the whole document, and the node of
\* the element whose reads throw is recorded as neither visible nor
\* interactive.
C19_GracefulDegradation ==
  snap # <<>> =>
    /\ ~snap[1].threw
    /\ MirrorsDocument(snap[1].docAfter, snap[1].map,
                       SnapshotOrderFrom(snap[1].map, snap[1].rootId))
    /\ \A k \in ElementKeys(snap[1].map) :
         snap[1].map[k].tagName = "form" =>
           (~snap[1].map[k].isVisible /\ ~snap[1].map[k].isInteractive)

\* C20: isElementInteractive is true exactly for an element whose tag is in
\* the tag list, or that has one of the six handler attributes, or whose role
\* is one of the five roles, or that has a tabindex attribute whose value is
\* not "-1", an empty value included.
C20_InteractiveIff ==
  (fn # <<>> /\ fn[1].op = "isElementInteractive") =>
    (fn[1].result[1] <=>
       \/ fn[1].element[1].tag \in
            {"a", "button", "input", "select", "textarea", "option", "optgroup",
             "fieldset", "legend", "details", "summary"}
       \/ \E a \in {"onclick", "onmousedown", "onmouseup", "onmousemove",
                     "onmouseover", "onmouseout"} :
            HasAttribute(fn[1].element[1], a)
       \/ /\ HasAttribute(fn[1].element[1], "role")
          /\ GetAttribute(fn[1].element[1], "role") \in
               {<<"button">>, <<"link">>, <<"menuitem">>, <<"tab">>, <<"option">>}
       \/ /\ HasAttribute(fn[1].element[1], "tabindex")
          /\ GetAttribute(fn[1].element[1], "tabindex") # <<"-", "1">>)

\* The elements of d with the parent and the tag of e, e included.
SameTagSiblings(d, e) ==
  {x \in 1..Len(d) : d[x].parent = d[e].parent /\ d[x].tag = d[e].tag}

\* The path segment of e: the tag alone when e is the only one of its tag
\* under its parent, else the tag with e's 1-based position among them.
OrdinalSegment(d, e) ==
  IF Cardinality(SameTagSiblings(d, e)) = 1 THEN <<d[e].tag>>
  ELSE <<d[e].tag, "[">>
       \o NumToString(Cardinality({x \in SameTagSiblings(d, e) : x <= e}))
       \o <<"]">>

\* The last segment of a path.
LastSegment(xpath) == Split(xpath, {"/"})[Len(Split(xpath, {"/"}))]

\* The i-th node of an order carries, for an element without id below body,
\* a path that ends in the ordinal segment of the i-th element.
PathsEndInOrdinal(d, map, order) ==
  \A i \in 1..Len(order) :
    (/\ PreOrderFrom(d, BodyIndex)[i] # BodyIndex
     /\ ElementId(d[PreOrderFrom(d, BodyIndex)[i]]) = <<>>)
      => LastSegment(map[order[i]].xpath)
           = OrdinalSegment(d, PreOrderFrom(d, BodyIndex)[i])

\* C21: the path segment of an element without an id carries the 1-based
\* position of the element among its same-tag siblings, and the ordinal is
\* left out exactly when the element is the only one of its tag under its
\* parent: the first of several same-tag siblings ends in [1].
C21_PathOrdinals ==
  snap # <<>> =>
    PathsEndInOrdinal(snap[1].docAfter, snap[1].map,
                      SnapshotOrderFrom(snap[1].map, snap[1].rootId))

\* Two node maps with the same nodes, paths, indices and children lists.
SameSnapshot(m1, m2) ==
  /\ SameNodes(m1, m2)
  /\ \A k \in ElementKeys(m1) : m2[k].children = m1[k].children

\* A node of the page's own elements: neither the overlay container nor
\* anything below it.
PageNode(node) ==
  /\ ~\E a \in 1..Len(node.attributes) :
        node.attributes[a] = Attr("id", ContainerId)
  /\ ~Contains(node.xpath, ContainerId)

\* C22: drawing the overlay has no effect on the snapshot.  A run with
\* doHighlightElements = true returns the nodes, paths, indices and children
\* lists that a run without the overlay returns for the same page, and no
\* overlay element is a node of the snapshot.
C22_OverlayHasNoEffect ==
  (snap # <<>> /\ snap[1].args.doHighlightElements) =>
    /\ SameSnapshot(snap[1].map,
                    buildDomTreeOverlay(removeExistingContainer(snap[1].docAfter),
                                        FALSE, snap[1].args.focusHighlightIndex).map)
    /\ \A k \in ElementKeys(snap[1].map) : PageNode(snap[1].map[k])

\* The overlay containers of a document, their boxes, and the label texts.
Containers(d) == {i \in 1..Len(d) : ElementId(d[i]) = ContainerId}

Boxes(d) == {i \in 1..Len(d) : d[i].parent \in Containers(d)}

LabelsOf(d, box) == {i \in 1..Len(d) : d[i].parent = box}

\* One box per highlight-indexed node of the map, each with one label that
\* shows the index of its node.
OverlayShows(d, map) ==
  /\ Cardinality(Boxes(d)) = Cardinality(IndexedKeys(map, "highlightIndex"))
  /\ \A b \in Boxes(d) : Cardinality(LabelsOf(d, b)) = 1
  /\ {d[l].text : l \in UNION {LabelsOf(d, b) : b \in Boxes(d)}}
       = {NumToString(h) : h \in IndexValues(map, "highlightIndex")}

\* C23: the document never holds more than one overlay container; a container
\* in the document is that of the last snapshot, taken with doHighlightElements
\* = true, and holds exactly one box per highlight-indexed node of that
\* snapshot, labelled with the node's index; a run of the script leaves a
\* container exactly when doHighlightElements is true, and removeHighlights
\* leaves none.
C23_OneOverlayOfLastRun ==
  /\ [](/\ Cardinality(Containers(doc)) <= 1
        /\ Containers(doc) # {} =>
             /\ snap # <<>>
             /\ snap[1].args.doHighlightElements
             /\ OverlayShows(doc, snap[1].map))
  /\ [][(/\ snap' # <<>>
         /\ doc' = snap'[1].docAfter
         /\ <<doc', snap'>> # <<doc, snap>>)
          => (Containers(doc') # {} <=> snap'[1].args.doHighlightElements)]_vars
  /\ [][(snap' = snap /\ Len(doc') < Len(doc)) => Containers(doc') = {}]_vars

\* A second run with the overlay on, over a page with two indexed elements:
\* the document shows two boxes.
C23_Witness ==
  /\ snap # <<>>
  /\ snap[1].rerun
  /\ snap[1].args.doHighlightElements
  /\ Cardinality(Boxes(doc)) = 2
  /\ Cardinality(Containers(doc)) = 1
\* ============================================================ LLM selector
\* ------------------------------------------------------------------ JSON
Bool(x) == [t |-> "boolean", v |-> x]
NaN == Num(<<"NaN">>)

\* The number literals a response may hold, with their values in tenths.
NumberTenths ==
  ("0" :> 0) @@ ("1" :> 10) @@ ("7" :> 70) @@ ("0.5" :> 5) @@ ("2" :> 20) @@ ("-1" :> -10)

\* The tokens of a JSON text: whitespace between tokens is insignificant.
JsonTokens(s) == SelectSeq(s, LAMBDA p : ~IsWhitespace(p))

JsonFail == [ok |-> FALSE, value |-> Undefined, next |-> 0]

\* A scalar at token i: a number, a literal name or a string of at most one
\* piece between double quotes.
JsonScalarAt(tk, i) ==
  IF i > Len(tk) THEN JsonFail
  ELSE IF tk[i] \in DOMAIN NumberTenths
  THEN [ok |-> TRUE, value |-> Num(<<tk[i]>>), next |-> i + 1]
  ELSE IF tk[i] = "null" THEN [ok |-> TRUE, value |-> Null, next |-> i + 1]
  ELSE IF tk[i] \in {"true", "false"}
  THEN [ok |-> TRUE, value |-> Bool(<<tk[i]>>), next |-> i + 1]
  ELSE IF tk[i] = "\"" /\ i + 1 <= Len(tk) /\ tk[i + 1] = "\""
  THEN [ok |-> TRUE, value |-> Str(<<>>), next |-> i + 2]
  ELSE IF tk[i] = "\"" /\ i + 2 <= Len(tk) /\ tk[i + 2] = "\""
          /\ tk[i + 1] \notin {"\\", "\n"}
  THEN [ok |-> TRUE, value |-> Str(<<tk[i + 1]>>), next |-> i + 3]
  ELSE JsonFail

\* What follows a member: a comma and more members, or the closing brace.
JsonAfterMember(tk, key, val, acc, rest) ==
  IF ~val.ok \/ val.next > Len(tk) THEN JsonFail
  ELSE IF tk[val.next] = "}"
  THEN [ok |-> TRUE,
        value |-> Obj(Append(acc, [name |-> key.value.v, value |-> val.value])),
        next |-> val.next + 1]
  ELSE IF tk[val.next] = "," THEN rest
  ELSE JsonFail

RECURSIVE JsonMembersAt(_, _, _)
\* The members of an object from token i on, up to its closing brace.
JsonMembersAt(tk, i, acc) ==
  IF ~JsonScalarAt(tk, i).ok \/ JsonScalarAt(tk, i).value.t # "string" THEN JsonFail
  ELSE IF JsonScalarAt(tk, i).next > Len(tk) \/ tk[JsonScalarAt(tk, i).next] # ":"
  THEN JsonFail
  ELSE IF ~JsonScalarAt(tk, JsonScalarAt(tk, i).next + 1).ok THEN JsonFail
  ELSE JsonAfterMember(tk, JsonScalarAt(tk, i),
                       JsonScalarAt(tk, JsonScalarAt(tk, i).next + 1), acc,
                       JsonMembersAt(tk, JsonScalarAt(tk, JsonScalarAt(tk, i).next + 1).next + 1,
                                     Append(acc, [name |-> JsonScalarAt(tk, i).value.v,
                                                  value |-> JsonScalarAt(tk, JsonScalarAt(tk, i).next + 1).value])))

JsonValueAt(tk) ==
  IF Len(tk) = 0 THEN JsonFail
  ELSE IF tk[1] = "{"
  THEN IF Len(tk) >= 2 /\ tk[2] = "}"
       THEN [ok |-> TRUE, value |-> Obj(<<>>), next |-> 3]
       ELSE JsonMembersAt(tk, 2, <<>>)
  ELSE JsonScalarAt(tk, 1)

\* JSON.parse for texts holding a scalar or an object of scalars: a
\* SyntaxError for anything else.
JSONParse(s) ==
  IF JsonValueAt(JsonTokens(s)).ok
     /\ JsonValueAt(JsonTokens(s)).next = Len(JsonTokens(s)) + 1
  THEN Returned(JsonValueAt(JsonTokens(s)).value)
  ELSE Threw

\* parsed.name: the last member of that name, undefined when there is none
\* or when parsed is a scalar.
GetMember(parsed, name) ==
  IF parsed.t # "object"
     \/ \A k \in 1..Len(parsed.v) : parsed.v[k].name # <<name>>
  THEN Undefined
  ELSE parsed.v[CHOOSE k \in 1..Len(parsed.v) :
                  /\ parsed.v[k].name = <<name>>
                  /\ \A m \in (k + 1)..Len(parsed.v) : parsed.v[m].name # <<name>>].value

\* ------------------------------------------------------- parseLLMResponse
Fence == <<Backtick, Backtick, Backtick>>

IsFenceAt(s, i) == i + 2 <= Len(s) /\ SubSeq(s, i, i + 2) = Fence

\* Where the object of a code block opening at a starts.
BlockOpen(s, a) ==
  SkipWs(s, IF a + 3 <= Len(s) /\ s[a + 3] = "json" THEN a + 4 ELSE a + 3)

\* The closing braces that end a code block whose object starts at b.
BlockCloses(s, b) ==
  {c \in (b + 1)..Len(s) : s[c] = "}" /\ IsFenceAt(s, SkipWs(s, c + 1))}

\* The fences a match of the code block pattern can start at.
BlockStarts(s) ==
  {a \in 1..Len(s) :
     /\ IsFenceAt(s, a)
     /\ BlockOpen(s, a) <= Len(s)
     /\ s[BlockOpen(s, a)] = "{"
     /\ BlockCloses(s, BlockOpen(s, a)) # {}}

Least(S) == CHOOSE x \in S : \A y \in S : x <= y

\* Lines 237-245: the object inside the first code block, when there is one.
StripCodeBlock(s) ==
  IF Contains(s, Fence) /\ BlockStarts(s) # {}
  THEN SubSeq(s, BlockOpen(s, Least(BlockStarts(s))),
              Least(BlockCloses(s, BlockOpen(s, Least(BlockStarts(s))))))
  ELSE s

NullResult(reasoning) ==
  [selectedElement |-> <<>>, selectedIndex |-> Null,
   confidence |-> Num(<<"0">>), reasoning |-> reasoning]

\* ToNumber of a value, in tenths; "NaN" for what is no number.
ToTenths(x) ==
  IF x.t = "number" /\ x.v # <<"NaN">> THEN <<NumberTenths[x.v[1]]>>
  ELSE IF x.t = "string" /\ x.v = <<>> THEN <<0>>
  ELSE IF x.t = "string" /\ Len(x.v) = 1 /\ x.v[1] \in DOMAIN NumberTenths
  THEN <<NumberTenths[x.v[1]]>>
  ELSE IF x.t = "boolean" THEN <<IF x.v = <<"true">> THEN 10 ELSE 0>>
  ELSE IF x.t = "null" THEN <<0>>
  ELSE <<>>

\* Math.max(0, Math.min(1, confidence))
clampConfidence(confidence) ==
  IF ToTenths(confidence) = <<>> THEN NaN
  ELSE IF ToTenths(confidence)[1] <= 0 THEN Num(<<"0">>)
  ELSE IF ToTenths(confidence)[1] >= 10 THEN Num(<<"1">>)
  ELSE Num(<<CHOOSE tok \in DOMAIN NumberTenths :
                NumberTenths[tok] = ToTenths(confidence)[1]>>)

\* selectorMap[selectedIndex]: the entry whose key reads as the value does.
LookupIndex(selectorMap, selectedIndex) ==
  {k \in DOMAIN selectorMap : NumToString(k) = JSToString(selectedIndex)}

OrElse(x, y) == IF Truthy(x) THEN x ELSE y

\* Lines 246-275, once the text has parsed.
resultOfParsed(parsed, selectorMap) ==
  IF parsed.t \in {"null", "undefined"}
  THEN NullResult(<<"Failed to parse LLM response: ", "TypeError">>)
  ELSE IF GetMember(parsed, "selectedIndex").t \in {"null", "undefined"}
  THEN NullResult(JSToString(OrElse(OrElse(GetMember(parsed, "reasoning"), Str(<<>>)),
                                    Str(<<"No element selected">>))))
  ELSE IF LookupIndex(selectorMap, GetMember(parsed, "selectedIndex")) = {}
  THEN NullResult(<<"Element with index ">>
                  \o JSToString(GetMember(parsed, "selectedIndex"))
                  \o <<" not found in selector map">>)
  ELSE [selectedElement |->
          <<selectorMap[CHOOSE k \in LookupIndex(selectorMap,
                                                 GetMember(parsed, "selectedIndex")) : TRUE]>>,
        selectedIndex |-> GetMember(parsed, "selectedIndex"),
        confidence |-> clampConfidence(OrElse(GetMember(parsed, "confidence"), Num(<<"0">>))),
        reasoning |-> JSToString(OrElse(GetMember(parsed, "reasoning"), Str(<<>>)))]

\* LLMSelector.parseLLMResponse; a content that is no string has no trim.
parseLLMResponse(response, selectorMap) ==
  IF response.t # "string"
  THEN NullResult(<<"Failed to parse LLM response: ", "TypeError">>)
  ELSE IF JSONParse(StripCodeBlock(Trim(response.v))).threw
  THEN NullResult(<<"Failed to parse LLM response: ", "SyntaxError">>)
  ELSE resultOfParsed(JSONParse(StripCodeBlock(Trim(response.v))).value, selectorMap)
\* ------------------------------------------------------- DOMElementNode
TextNode(text, isVisible) ==
  [type |-> "TEXT_NODE", text |-> text, isVisible |-> isVisible]

\* A DOMElementNode as the selector reads it.
ElementNode(tagName, attributes, highlightIndex, children) ==
  [type |-> "ELEMENT_NODE", tagName |-> tagName, attributes |-> attributes,
   highlightIndex |-> highlightIndex, children |-> children]

RECURSIVE FlatMap(_, _, _)
\* The concatenation of Op over the entries of a list.
FlatMap(Op(_), list, k) ==
  IF k > Len(list) THEN <<>>
  ELSE Op(list[k]) \o FlatMap(Op, list, k + 1)

RECURSIVE collectText(_, _)
\* The text parts under a node, not entering another indexed element.
collectText(node, isThis) ==
  IF node.type = "TEXT_NODE"
  THEN IF node.isVisible THEN <<node.text>> ELSE <<>>
  ELSE IF ~isThis /\ node.highlightIndex # NullIdx THEN <<>>
  ELSE FlatMap(LAMBDA child : collectText(child, FALSE), node.children, 1)

\* DOMElementNode.getDirectTextContent
getDirectTextContent(node) ==
  Join(FlatMap(LAMBDA a : IF a.name \in {"placeholder", "value", "title", "aria-label"}
                             /\ Trim(a.value) # <<>>
                          THEN <<Trim(a.value)>> ELSE <<>>,
               node.attributes, 1),
       <<" ">>)

\* DOMElementNode.getAllTextTillNextClickableElement()
getAllTextTillNextClickableElement(node) ==
  IF collectText(node, TRUE) # <<>>
  THEN Trim(Join(collectText(node, TRUE), <<" ">>))
  ELSE Trim(getDirectTextContent(node))

\* -------------------------------------------------- formatElementsForLLM
includeAttributes ==
  {"title", "type", "name", "role", "aria-label", "placeholder", "value", "alt",
   "aria-expanded", "data-testid"}

RECURSIVE ObjectValues(_)
\* Object.values of a map with integer keys: in ascending key order.
ObjectValues(selectorMap) ==
  IF DOMAIN selectorMap = {} THEN <<>>
  ELSE <<selectorMap[Least(DOMAIN selectorMap)]>>
       \o ObjectValues([k \in DOMAIN selectorMap \ {Least(DOMAIN selectorMap)} |->
                          selectorMap[k]])

\* a.highlightIndex || 0
SortKey(node) == IF node.highlightIndex = NullIdx THEN 0 ELSE node.highlightIndex

RECURSIVE InsertSorted(_, _)
\* node placed after every entry it does not sort before.
InsertSorted(sorted, node) ==
  IF sorted = <<>> THEN <<node>>
  ELSE IF SortKey(sorted[Len(sorted)]) <= SortKey(node) THEN Append(sorted, node)
  ELSE Append(InsertSorted(SubSeq(sorted, 1, Len(sorted) - 1), node), sorted[Len(sorted)])

RECURSIVE SortByHighlightIndex(_)
\* Array.prototype.sort with the comparator of lines 190-192 (stable).
SortByHighlightIndex(nodes) ==
  IF nodes = <<>> THEN <<>>
  ELSE InsertSorted(SortByHighlightIndex(SubSeq(nodes, 1, Len(nodes) - 1)),
                    nodes[Len(nodes)])

RECURSIVE Distinct(_)
\* Array.from(new Set(list)): first occurrences, in order.
Distinct(list) ==
  IF list = <<>> THEN <<>>
  ELSE IF \E k \in 1..(Len(list) - 1) : list[k] = list[Len(list)]
  THEN Distinct(SubSeq(list, 1, Len(list) - 1))
  ELSE Append(Distinct(SubSeq(list, 1, Len(list) - 1)), list[Len(list)])

\* The attribute values shown for a node: those of the included attributes
\* that differ from the tag name and from the text.
ShownAttributes(node, text) ==
  SelectSeq(Distinct(FlatMap(LAMBDA a : IF a.name \in includeAttributes
                                           /\ a.value # <<node.tagName>>
                                        THEN <<a.value>> ELSE <<>>,
                             node.attributes, 1)),
            LAMBDA v : v # text)

\* Lines 208-211: the line of one node.
ElementLine(node, attributesStr, text) ==
  <<"[">> \o NumToString(node.highlightIndex) \o <<"]", "<", node.tagName>>
  \o (IF attributesStr # <<>> THEN <<" ">> \o attributesStr ELSE <<>>)
  \o (IF text # <<>> THEN <<">">> \o text \o <<"</", node.tagName, ">">>
      ELSE <<"/>">>)

\* Lines 196-214: the line pushed for one node with a highlight index.
FormatNode(node) ==
  ElementLine(node,
              Join(ShownAttributes(node, getAllTextTillNextClickableElement(node)), <<";">>),
              getAllTextTillNextClickableElement(node))

\* LLMSelector.formatElementsForLLM
formatElementsForLLM(selectorMap) ==
  Join(FlatMap(LAMBDA n : IF n.highlightIndex # NullIdx THEN <<FormatNode(n)>> ELSE <<>>,
               SortByHighlightIndex(ObjectValues(selectorMap)), 1),
       <<"\n">>)

\* LLMSelector.createUserMessage: the state description sent to the model.
createUserMessage(prompt, browserState) ==
  <<"Current url: ", "Page title: ", "Interactive elements: ">>
  \o (IF formatElementsForLLM(browserState.selectorMap) = <<>>
      THEN <<"No interactive elements found">>
      ELSE (IF browserState.pixels_above > 0
            THEN <<"... ">> \o NumToString(browserState.pixels_above)
                 \o <<" pixels above - scroll to see more ...", "\n">>
            ELSE <<"[Start of page]", "\n">>)
           \o formatElementsForLLM(browserState.selectorMap)
           \o (IF browserState.pixels_below > 0
               THEN <<"\n", "... ">> \o NumToString(browserState.pixels_below)
                    \o <<" pixels below - scroll to see more ...">>
               ELSE <<"\n", "[End of page]">>))
  \o <<"\n", "User Prompt: ">> \o prompt

\* ---------------------------------------------------------- selectElement
\* Largest maxRetries a selector is configured with.
MaxRetries == 3

FailedResult == NullResult(<<"Failed to select element after all attempts">>)

\* A loop that runs once more than configured.
oneMoreAttempt(attempt, maxRetries) == attempt <= maxRetries

\* The loop condition of line 56.
hasAttempt(attempt, maxRetries) == attempt < maxRetries

\* A catch block that throws again whatever the attempt.
anyAttempt(attempt, maxRetries) == TRUE

\* The condition of line 69 under which a caught error is thrown again.
isFinalAttempt(attempt, maxRetries) == attempt = maxRetries - 1

\* llm.invoke(messages) is called and awaited.
invokeLLM(c) ==
  [c EXCEPT !.pc = "invoke", !.sent = Append(@, c.messages)]

\* The loop condition is evaluated: another invocation, or the result of
\* lines 77-82.
loopOrFail(c) ==
  IF hasAttempt(c.attempt, c.maxRetries) THEN invokeLLM(c)
  ELSE [c EXCEPT !.pc = "done", !.outcome = "resolved", !.value = <<FailedResult>>]

\* selectElement up to its first await.
selectElementStart(prompt, browserState, maxRetries) ==
  loopOrFail([op |-> "selectElement", pc |-> "start", maxRetries |-> maxRetries,
              selectorMap |-> browserState.selectorMap,
              messages |-> <<<<"system prompt">>, createUserMessage(prompt, browserState)>>,
              attempt |-> 0, sent |-> <<>>, history |-> <<>>,
              outcome |-> "pending", value |-> <<>>])

\* Lines 58-66: the invocation resolved with a message of that content.
selectElementResponded(c, content) ==
  IF parseLLMResponse(content, c.selectorMap).selectedElement # <<>>
  THEN [c EXCEPT !.pc = "done", !.outcome = "resolved",
                 !.value = <<parseLLMResponse(content, c.selectorMap)>>,
                 !.history = Append(@, "element")]
  ELSE loopOrFail([c EXCEPT !.attempt = @ + 1, !.history = Append(@, "none")])

\* Lines 67-74: the invocation threw.
selectElementCaught(c) ==
  IF isFinalAttempt(c.attempt, c.maxRetries)
  THEN [c EXCEPT !.pc = "done", !.outcome = "rejected",
                 !.value = <<[message |-> <<"Failed to select element after ">>
                                           \o NumToString(c.maxRetries)
                                           \o <<" attempts: ", "Error">>]>>,
                 !.history = Append(@, "threw")]
  ELSE loopOrFail([c EXCEPT !.attempt = @ + 1, !.history = Append(@, "threw")])
\* ------------------------------------------------ inputs of the selector
\* The values a member of a response may have, as JSON text.
ValueTexts ==
  { <<"null">>, <<"0">>, <<"1">>, <<"7">>, <<"0.5">>, <<"2">>, <<"-1">>, <<"true">>,
    <<"\"", "0", "\"">>, <<"\"", "high", "\"">> }

MemberTexts(name) ==
  {<<>>} \cup { <<<<"\"", name, "\"", ":", " ">> \o v>> : v \in ValueTexts }

\* An object with a reasoning and the members chosen.
ObjectText(members) ==
  <<"{">> \o Join(members \o <<<<"\"", "reasoning", "\"", ":", "\"", "r", "\"">>>>, <<",", " ">>)
  \o <<"}">>

ObjectTexts ==
  { ObjectText(si \o cf) : si \in MemberTexts("selectedIndex"),
                           cf \in MemberTexts("confidence") }

\* Objects bare and inside a code block, and texts that are no object.
ProbeContents ==
  { Str(t) : t \in ObjectTexts }
  \cup { Str(<<"Here", " ">> \o Fence \o <<"json", "\n">> \o t \o <<"\n">> \o Fence) :
           t \in ObjectTexts }
  \cup { Str(<<"sorry">>), Str(<<"{">>), Str(<<"null">>), Str(<<"7">>), Str(<<>>),
         Obj(<<>>) }

\* One response of each kind: an entry selected with a confidence in range,
\* out of range and of no numeric value, inside a code block, no entry
\* selected, an index that is no key, and texts that do not parse.
LoopContents ==
  { Str(ObjectText(<<<<"\"", "selectedIndex", "\"", ":", " ", "1">>,
                     <<"\"", "confidence", "\"", ":", " ", "0.5">>>>)),
    Str(ObjectText(<<<<"\"", "selectedIndex", "\"", ":", " ", "0">>,
                     <<"\"", "confidence", "\"", ":", " ", "7">>>>)),
    Str(ObjectText(<<<<"\"", "selectedIndex", "\"", ":", " ", "0">>,
                     <<"\"", "confidence", "\"", ":", " ", "\"", "high", "\"">>>>)),
    Str(Fence \o <<"\n">> \o ObjectText(<<<<"\"", "selectedIndex", "\"", ":", " ", "0">>>>)
        \o <<"\n">> \o Fence),
    Str(ObjectText(<<<<"\"", "selectedIndex", "\"", ":", " ", "null">>>>)),
    Str(ObjectText(<<<<"\"", "selectedIndex", "\"", ":", " ", "7">>>>)),
    Str(<<"sorry">>),
    Obj(<<>>) }

ProbeNodes ==
  { ElementNode(tag, as, hi, ch) :
      tag \in {"button", "a"},
      hi \in {NullIdx, 0, 1},
      as \in { <<>>, <<Attr("title", <<"Go">>)>>,
               <<Attr("type", <<"button">>), Attr("name", <<"Go">>)>> },
      ch \in { <<>>,
               <<TextNode(<<"Sign", "\n", "in">>, TRUE), TextNode(<<"x">>, FALSE)>>,
               <<ElementNode("span", <<>>, NullIdx, <<TextNode(<<"in">>, TRUE)>>)>> } }

\* Selector maps of up to two entries.
ProbeSelectorMaps ==
  UNION { [K -> ProbeNodes] : K \in {{}, {0}, {0, 1}} }

\* The maps a snapshot holds: every entry under its own highlight index.
SnapshotMaps ==
  { m \in ProbeSelectorMaps :
      /\ \A k \in DOMAIN m : m[k].highlightIndex = k
      /\ \A k \in DOMAIN m : m[k].tagName = "button" /\ m[k].attributes = <<>> }

FormatElements ==
  /\ fn = <<>>
  /\ call = <<>>
  /\ \E m \in ProbeSelectorMaps :
       fn' = <<[op |-> "formatElementsForLLM", element |-> <<m>>, include |-> TRUE,
                result |-> <<formatElementsForLLM(m)>>]>>
  /\ UNCHANGED <<doc, snap, loc, currentState, call, other>>

ParseResponse ==
  /\ fn = <<>>
  /\ call = <<>>
  /\ \E content \in ProbeContents, m \in {mm \in SnapshotMaps : Cardinality(DOMAIN mm) # 1} :
       fn' = <<[op |-> "parseLLMResponse", element |-> <<content, m>>, include |-> TRUE,
                result |-> <<parseLLMResponse(content, m)>>]>>
  /\ UNCHANGED <<doc, snap, loc, currentState, call, other>>

\* selectElement is called on a browser state by a selector configured with
\* maxRetries.
SelectElementCall ==
  /\ fn = <<>>
  /\ call = <<>>
  /\ \E m \in SnapshotMaps, above \in {0, 5}, maxRetries \in (-1)..MaxRetries :
       call' = <<selectElementStart(<<"login">>,
                                    [selectorMap |-> m, pixels_above |-> above,
                                     pixels_below |-> 0],
                                    maxRetries)>>
  /\ UNCHANGED <<doc, snap, loc, currentState, other, fn>>

\* The model answers the pending invocation.
LlmResponds ==
  /\ call # <<>>
  /\ call[1].pc = "invoke"
  /\ \E content \in LoopContents :
       call' = <<selectElementResponded(call[1], content)>>
  /\ UNCHANGED <<doc, snap, loc, currentState, other, fn>>

\* The pending invocation throws.
LlmThrows ==
  /\ call # <<>>
  /\ call[1].pc = "invoke"
  /\ call' = <<selectElementCaught(call[1])>>
  /\ UNCHANGED <<doc, snap, loc, currentState, other, fn>>

SelectElementReturn ==
  /\ call # <<>>
  /\ call[1].pc = "done"
  /\ call' = <<>>
  /\ UNCHANGED <<doc, snap, loc, currentState, other, fn>>

NextLlm ==
  \/ FormatElements
  \/ ParseResponse
  \/ FnReturn
  \/ SelectElementCall
  \/ LlmResponds
  \/ LlmThrows
  \/ SelectElementReturn

SpecLlm == Init /\ [][NextLlm]_vars

\* Every invocation of the model settles.
SpecLlmFair == SpecLlm /\ WF_vars(LlmResponds \/ LlmThrows)
\* --------------------------------------------------------------- C24
\* A result with an element: the entry of the map under the selected index.
SelectsEntry(r, selectorMap) ==
  /\ r.selectedElement # <<>>
  /\ LookupIndex(selectorMap, r.selectedIndex) # {}
  /\ \A k \in LookupIndex(selectorMap, r.selectedIndex) :
       r.selectedElement = <<selectorMap[k]>>

ConfidenceInRange(r) ==
  /\ r.confidence.t = "number"
  /\ r.confidence.v[1] \in DOMAIN NumberTenths
  /\ NumberTenths[r.confidence.v[1]] >= 0
  /\ NumberTenths[r.confidence.v[1]] <= 10

IsNullShape(r) ==
  /\ r.selectedElement = <<>>
  /\ r.selectedIndex = Null
  /\ r.confidence = Num(<<"0">>)

\* C24: every result selectElement resolves to either holds the entry
\* selectorMap[selectedIndex] with a confidence within [0, 1], or holds no
\* element, a null index and confidence 0; and parseLLMResponse returns a
\* result of the second shape, without throwing, for a text that does not
\* parse, selects null or names an index that is no key of the map.
C24_TwoResultShapes ==
  /\ (call # <<>> /\ call[1].op = "selectElement" /\ call[1].outcome = "resolved")
       => \/ (SelectsEntry(call[1].value[1], call[1].selectorMap)
              /\ ConfidenceInRange(call[1].value[1]))
          \/ IsNullShape(call[1].value[1])
  /\ (fn # <<>> /\ fn[1].op = "parseLLMResponse"
      /\ (\/ fn[1].element[1].t # "string"
          \/ JSONParse(StripCodeBlock(Trim(fn[1].element[1].v))).threw
          \/ GetMember(JSONParse(StripCodeBlock(Trim(fn[1].element[1].v))).value,
                       "selectedIndex").t \in {"null", "undefined"}
          \/ LookupIndex(fn[1].element[2],
                         GetMember(JSONParse(StripCodeBlock(Trim(fn[1].element[1].v))).value,
                                   "selectedIndex")) = {}))
       => IsNullShape(fn[1].result[1])
\* --------------------------------------------------------------- C25
\* The keys of the entries that have a highlight index.
EntriesWithIndex(selectorMap) ==
  {k \in DOMAIN selectorMap : selectorMap[k].highlightIndex # NullIdx}

\* The orders of those keys in which the highlight index never decreases.
AscendingOrders(selectorMap) ==
  {o \in [1..Cardinality(EntriesWithIndex(selectorMap)) -> EntriesWithIndex(selectorMap)] :
     /\ \A i, j \in DOMAIN o : i # j => o[i] # o[j]
     /\ \A i, j \in DOMAIN o :
          i < j => selectorMap[o[i]].highlightIndex <= selectorMap[o[j]].highlightIndex}

\* The lines of a text; the empty text has none.
LinesOf(text) == IF text = <<>> THEN <<>> ELSE Split(text, {"\n"})

LinePrefix(node) ==
  <<"[">> \o NumToString(node.highlightIndex) \o <<"]", "<", node.tagName>>

\* C25: the text formatElementsForLLM returns has exactly one line per
\* entry of selectorMap with a non-null highlightIndex, the lines follow
\* ascending highlightIndex order, and each starts with
\* [highlightIndex]<tagName of its entry.
C25_OneLinePerIndexedEntry ==
  (fn # <<>> /\ fn[1].op = "formatElementsForLLM")
    => /\ Len(LinesOf(fn[1].result[1])) = Cardinality(EntriesWithIndex(fn[1].element[1]))
       /\ \E o \in AscendingOrders(fn[1].element[1]) :
            \A k \in DOMAIN o :
              StartsWith(LinesOf(fn[1].result[1])[k], LinePrefix(fn[1].element[1][o[k]]))
\* --------------------------------------------------------------- C26
SelectElementUnderWay == call # <<>> /\ call[1].op = "selectElement"

\* C26: one selectElement call invokes the model at most maxRetries times
\* (never when maxRetries <= 0), each time with the messages built at the
\* start of the call; once a response has resolved to an element of the
\* map no further invocation is made; the call is settled as soon as
\* maxRetries attempts are used up, and every call whose invocations settle
\* terminates with a result or an error.
C26_RetryBound ==
  /\ [](SelectElementUnderWay =>
          /\ Len(call[1].sent) <= (IF call[1].maxRetries > 0 THEN call[1].maxRetries ELSE 0)
          /\ \A k \in 1..Len(call[1].sent) : call[1].sent[k] = call[1].messages
          /\ Len(call[1].sent) <= Len(call[1].history) + 1
          /\ (\E k \in 1..Len(call[1].history) : call[1].history[k] = "element")
               => (call[1].pc = "done" /\ Len(call[1].sent) = Len(call[1].history))
          /\ Len(call[1].history) >= call[1].maxRetries => call[1].pc = "done"
          /\ call[1].pc = "done" => call[1].outcome \in {"resolved", "rejected"})
  /\ [][(SelectElementUnderWay /\ call[1].pc = "done" /\ call' # <<>>)
          => call'[1].sent = call[1].sent]_vars
  /\ (SelectElementUnderWay ~> (SelectElementUnderWay /\ call[1].pc = "done"))

\* A call configured with three attempts that stopped after the second,
\* whose response named an element.
C26_Witness ==
  /\ SelectElementUnderWay
  /\ call[1].maxRetries = 3
  /\ call[1].history = <<"threw", "element">>
  /\ Len(call[1].sent) = 2
  /\ call[1].pc = "done"
\* --------------------------------------------------------------- C30
\* C30: a selectElement call rejects exactly when the invocation of attempt
\* maxRetries - 1 threw; an invocation that threw earlier is followed by
\* the next one; and a call all of whose invocations returned without an
\* element (none at all when maxRetries <= 0) resolves to the null result
\* with reasoning "Failed to select element after all attempts".
C30_RejectsOnFinalThrow ==
  SelectElementUnderWay =>
    /\ call[1].pc = "done" =>
         (call[1].outcome = "rejected"
            <=> /\ call[1].maxRetries >= 1
                /\ Len(call[1].history) = call[1].maxRetries
                /\ call[1].history[call[1].maxRetries] = "threw")
    /\ \A k \in 1..Len(call[1].history) :
         (call[1].history[k] = "threw" /\ k < call[1].maxRetries)
           => Len(call[1].sent) >= k + 1
    /\ (call[1].pc = "done" /\ \A k \in 1..Len(call[1].history) : call[1].history[k] = "none")
         => (/\ call[1].outcome = "resolved"
             /\ call[1].value = <<FailedResult>>
             /\ Len(call[1].sent) = (IF call[1].maxRetries > 0 THEN call[1].maxRetries ELSE 0))

\* A call of two attempts rejected by the throw of the second, and the
\* same after a first throw that was swallowed.
C30_Witness ==
  /\ SelectElementUnderWay
  /\ call[1].maxRetries = 2
  /\ call[1].history \in {<<"none", "threw">>, <<"threw", "threw">>}
  /\ call[1].outcome = "rejected"
\* ================================================================ facade
\* The indices a caller asks for: the first one and one no page reaches.
FacadeIndices == {0, 7}

\* The methods of LLMDOMSelector, with the index those by index are given.
FacadeRequests ==
  { [facade |-> f, index |-> NullIdx] :
      f \in {"refreshState", "getInteractiveElements", "selectElement",
             "selectAndClick", "selectAndInputText"} }
  \cup { [facade |-> f, index |-> i] :
           f \in {"getElementByIndex", "clickElementByIndex",
                  "inputTextToElementByIndex"},
           i \in FacadeIndices }

\* The element of a snapshot under an index, as the action layer gets it.
elementOfIndex(state, index) ==
  DescriptorOf(state.elementTree.map, state.selectorMap[index])

\* _click_element_node or _input_text_element_node is entered with the
\* element of that index.
actOnIndex(c, state, op) ==
  [c EXCEPT !.op = op, !.pc = "locate", !.outcome = "pending",
            !.element = <<elementOfIndex(state, c.index)>>]

\* What a method does with the state getState resolved to.
facadeAfterState(c, state) ==
  IF c.facade \in {"refreshState", "getInteractiveElements"}
  THEN [c EXCEPT !.pc = "done", !.outcome = "returned", !.value = <<state>>]
  ELSE IF c.facade = "getElementByIndex"
  THEN [c EXCEPT !.pc = "done", !.outcome = "returned", !.value = <<state>>,
                 !.element = IF c.index \in DOMAIN state.selectorMap
                             THEN <<elementOfIndex(state, c.index)>> ELSE <<>>]
  ELSE IF c.facade \in {"clickElementByIndex", "inputTextToElementByIndex"}
  THEN IF c.index \notin DOMAIN state.selectorMap
       THEN [c EXCEPT !.pc = "done", !.outcome = "rejected",
                      !.value = <<<<"Element with index ">> \o NumToString(c.index)
                                  \o <<" not found">>>>]
       ELSE actOnIndex(c, state, IF c.facade = "clickElementByIndex"
                                 THEN "click" ELSE "fill")
  ELSE [c EXCEPT !.pc = "select", !.outcome = "pending", !.value = <<state>>]

\* A getState that refreshes whether or not a snapshot is cached.
getStateRefreshing(c, cached) == [c EXCEPT !.pc = "removeHighlights"]

\* getState (lines 43-48) as the first step of a method: the cached snapshot
\* if there is one, else updateState.
getStateOrCached(c, cached) ==
  IF cached # <<>> /\ c.facade # "refreshState"
  THEN facadeAfterState(c, cached[1])
  ELSE [c EXCEPT !.pc = "removeHighlights"]

\* The step of updateState a method waits for, and what follows once the
\* state is there.
facadeStateStep(d, cached, c, ok) ==
  [doc |-> updateStateStep(d, cached, c, ok).doc,
   currentState |-> updateStateStep(d, cached, c, ok).currentState,
   call |-> IF updateStateStep(d, cached, c, ok).call.outcome = "returned"
            THEN facadeAfterState(updateStateStep(d, cached, c, ok).call,
                                  updateStateStep(d, cached, c, ok).call.value[1])
            ELSE updateStateStep(d, cached, c, ok).call]

\* llmSelector.selectElement settled: it threw, selected nothing, or selected
\* the entry of an index of the state it was given.
facadeSelected(c, selected) ==
  IF selected.kind = "threw"
  THEN [c EXCEPT !.pc = "done", !.outcome = "rejected", !.value = <<>>]
  ELSE IF selected.kind = "none" \/ c.facade = "selectElement"
  THEN [c EXCEPT !.pc = "done", !.outcome = "resolved", !.index = selected.index]
  ELSE actOnIndex([c EXCEPT !.index = selected.index], c.value[1],
                  IF c.facade = "selectAndClick" THEN "click" ELSE "fill")

FacadeCall ==
  /\ call = <<>>
  /\ \E q \in FacadeRequests :
       call' = <<getStateOrCached(q @@ NewCall("getState", "start", <<>>), currentState)>>
  /\ UNCHANGED <<doc, snap, loc, currentState, other, fn>>

FacadeStateStep ==
  /\ call # <<>>
  /\ call[1].pc \in UpdateStateSteps
  /\ \E ok \in BOOLEAN :
       \E r \in {facadeStateStep(doc, currentState, call[1], ok)} :
         /\ doc' = r.doc
         /\ currentState' = r.currentState
         /\ call' = <<r.call>>
  /\ UNCHANGED <<snap, loc, other, fn>>

FacadeSelectStep ==
  /\ call # <<>>
  /\ call[1].pc = "select"
  /\ \E selected \in
         {[kind |-> k, index |-> NullIdx] : k \in {"threw", "none"}}
         \cup {[kind |-> "element", index |-> i] :
                 i \in DOMAIN call[1].value[1].selectorMap} :
       call' = <<facadeSelected(call[1], selected)>>
  /\ UNCHANGED <<doc, snap, loc, currentState, other, fn>>

NextFacade ==
  \/ PageAddElement
  \/ FacadeCall
  \/ FacadeStateStep
  \/ FacadeSelectStep
  \/ LocateStep
  \/ ClickNative
  \/ ClickEvaluate
  \/ FillStep
  \/ CallReturn

SpecFacade == Init /\ [][NextFacade]_vars
\* --------------------------------------------------------------- C27
\* C27: the cached snapshot changes only in the last step of an updateState:
\* a method other than refreshState runs the traversal only while nothing is
\* cached, a cached snapshot is left as it is by every such method, also
\* once it has clicked or filled, and the element a method acts on is the
\* one the cached snapshot holds under the index.
C27_SnapshotStableBetweenRefreshes ==
  /\ [][currentState' # currentState =>
          /\ call # <<>>
          /\ call[1].pc = "title"
          /\ (currentState = <<>> \/ call[1].facade = "refreshState")]_vars
  /\ []((call # <<>> /\ call[1].pc \in UpdateStateSteps /\ call[1].facade # "refreshState")
          => currentState = <<>>)
  /\ []((call # <<>> /\ call[1].op \in {"click", "fill"})
          => /\ currentState # <<>>
             /\ call[1].index \in DOMAIN currentState[1].selectorMap
             /\ call[1].element = <<elementOfIndex(currentState[1], call[1].index)>>)

\* A click by index that went through on a page that has changed since the
\* snapshot was taken, the snapshot still being the cached one.
C27_Witness ==
  /\ call # <<>>
  /\ call[1].facade = "clickElementByIndex"
  /\ call[1].pc = "done"
  /\ call[1].outcome = "resolved"
  /\ call[1].nativeAttempts = 1
  /\ currentState # <<>>
  /\ Cardinality(PageElements(doc)) > Cardinality(PageElements(currentState[1].screenshot))
IdsDistinct(d) ==
  \A i, j \in 1..Len(d) :
    (i # j /\ ElementId(d[i]) # <<>>) => ElementId(d[i]) # ElementId(d[j])

\* C29: in a document whose non-empty ids are pairwise distinct, two
\* different element nodes of one snapshot never have the same xpath.
C29_PathsInjective ==
  (snap # <<>> /\ IdsDistinct(snap[1].docAfter)) =>
    \A k1, k2 \in ElementKeys(snap[1].map) :
      k1 # k2 => snap[1].map[k1].xpath # snap[1].map[k2].xpath

\* A snapshot of a document with distinct ids that holds an element with an
\* id and two siblings of one tag that the page put there without ids.
C29_Witness ==
  /\ snap # <<>>
  /\ IdsDistinct(snap[1].docAfter)
  /\ \E i \in 1..Len(snap[1].docAfter) : ElementId(snap[1].docAfter[i]) # <<>>
  /\ \E i, j \in PageElements(snap[1].docAfter) :
       /\ i # j
       /\ snap[1].docAfter[i].parent = snap[1].docAfter[j].parent
       /\ snap[1].docAfter[i].tag = snap[1].docAfter[j].tag
       /\ ElementId(snap[1].docAfter[i]) = <<>>
       /\ ElementId(snap[1].docAfter[j]) = <<>>
====
